---- MODULE Spec2Model ----
(***************************************************************************)
(* EdgeMesh control plane: the connection-authorization pipeline, the     *)
(* termination and the listing of connections                              *)
(* (app/api/v1/connections.py), device enrollment                          *)
(* (app/api/v1/enrollment.py), the fail-closed policy client               *)
(* (app/services/opa_client.py), the session dependency (app/db/session.py)*)
(* the health-report endpoint (app/api/v1/health.py) and the Prometheus    *)
(* counters and gauges (app/services/metrics.py).                          *)
(*                                                                         *)
(* Every HTTP request is served by a worker coroutine.  A coroutine gives  *)
(* up control at each await (the remote policy call, each db.commit()), so *)
(* a handler is a sequence of atomic steps between awaits.  Time is in     *)
(* seconds.  JSON values are strings ("true", "false", ...) so that Python *)
(* truthiness can be applied to them.                                      *)
(***************************************************************************)
EXTENDS Integers, Sequences, FiniteSets, TLC

\* ---------------------------------------------------------------- bounds
MaxAttempts == 1
MaxHealthChecks == 1

\* the coroutines that serve requests concurrently
Workers == {1, 2}
\* connection ids that requests name; every attempt that reaches the policy
\* stage can draw one
ConnIds == 1..MaxAttempts

\* ------------------------------------------------------ fixed universe
DeviceIds == {"d1", "d2", "d3"}
UserIds == {"u1", "u2"}
Services == {"db"}

NULL == -1
NoConn == 0

\* timedelta(minutes=5), in seconds
HealthMaxAge == 5 * 60

\* settings.OPA_TIMEOUT, in seconds
OPA_TIMEOUT == 5
\* the instants at which the clock is read: a report made at the first is
\* stale at the second
Times == {0, HealthMaxAge + 1}

\* ------------------------------------------------------ JSON / Python
JTrue == "true"
JFalse == "false"
JYes == "\"yes\""
JOne == "1"
JNull == "null"

\* Python truthiness of a JSON value
Truthy(v) == v \notin {"false", "null", "0", "\"\""}

\* dict.get(k, default)
Get(d, k, default) == IF k \in DOMAIN d THEN d[k] ELSE default

EmptyDict == [k \in {} |-> ""]

VARIABLES
    now,            \* datetime.now(timezone.utc) / func.now()
    devices,        \* devices table: device_id -> status ("absent" = no row)
    users,          \* users table: the user_ids that have a row
    user_status,    \* users table: user_id -> status
    healthchecks,   \* healthchecks table, in insertion order
    connections,    \* connections table, in insertion order
    audit_logs,     \* audit_logs table, in insertion order
    authorization_decisions_total,
    connections_total,
    connections_active,
    health_checks_total,
    pc,             \* per worker: where its handler is suspended
    args,           \* per worker: the request it serves
    loc,            \* per worker: the handler's local variables
    pending,        \* per worker: the session's uncommitted changes
    response,       \* per worker: the HTTP response of the handler
    certificate_serials,    \* devices table: device_id -> certificate_serial
    device_enrollments_total,
    devices_total,  \* gauge, label status="active"
    settings,       \* the Settings object of the process
    simulator       \* the DeviceSimulator process

vars == <<now, devices, users, user_status, healthchecks, connections, audit_logs,
          authorization_decisions_total, connections_total,
          connections_active, health_checks_total,
          pc, args, loc, pending, response,
          certificate_serials, device_enrollments_total, devices_total,
          settings, simulator>>

\* what the connection, health and policy handlers never write
registry == <<user_status, certificate_serials, device_enrollments_total,
              devices_total, settings, simulator>>

tables == <<devices, users, healthchecks, connections, audit_logs>>
metrics == <<authorization_decisions_total, connections_total,
             connections_active, health_checks_total>>

\* Optional[str]: None, or a string
None == <<>>
Some(v) == <<v>>
NoQuery == [device_id |-> None, user_id |-> None, status |-> None]

NoArgs == [handler |-> "none", path |-> "", device_id |-> "", user_id |-> "",
           service_name |-> "", connection_id |-> NoConn, query |-> NoQuery]
NoOutcome == [kind |-> "none", body |-> EmptyDict, err |-> ""]
NoInput == [device |-> EmptyDict, user |-> EmptyDict, service |-> EmptyDict,
            time |-> EmptyDict]
\* in_transaction is db.in_transaction(): the session begins a transaction
\* with its first statement and holds it until a commit or a rollback
NoLoc == [mtls |-> "", in_transaction |-> FALSE, called_opa |-> FALSE,
          opa_input |-> NoInput,
          waited |-> 0, outcome |-> NoOutcome,
          policy_result |-> EmptyDict, allowed |-> "", decision |-> "",
          audit_id |-> 0, connection_id |-> NoConn]
NoTunnel == [type |-> "", endpoint |-> "", public_key |-> "", allowed_ips |-> <<>>]
NoResponse == [status |-> 0, detail |-> "", connection_id |-> NoConn,
               service_name |-> "", virtual_tunnel |-> NoTunnel,
               connections |-> <<>>, total |-> 0]

HTTPException(code, msg) == [NoResponse EXCEPT !.status = code, !.detail = msg]

\* The devices enrolled before the first step hold the serial numbers of
\* their certificates; nothing was counted by this process yet.
\* DeviceSimulator.__init__: running is True and there is no HTTP client;
\* run is where run() stands, health and conn where the two loops stand,
\* in_flight the requests of a round that have not completed, chunk the
\* index of the sleep chunk, saw_stop whether the loop has read running as
\* False.
NewSimulator ==
    [running |-> TRUE, client |-> "none", run |-> "start",
     to_enroll |-> 0, enrolled |-> 0,
     health |-> [pc |-> "idle", in_flight |-> 0, chunk |-> 0, saw_stop |-> FALSE],
     conn |-> [pc |-> "idle", in_flight |-> 0, chunk |-> 0, saw_stop |-> FALSE]]

\* HEALTH_CHECK_MAX_AGE_MINUTES: int = 5
DefaultSettings == [HEALTH_CHECK_MAX_AGE_MINUTES |-> 5]

InitRegistry ==
    /\ certificate_serials = [d \in DeviceIds |->
                                CASE d = "d1" -> 1
                                  [] d = "d2" -> 2
                                  [] OTHER    -> NULL]
    /\ device_enrollments_total = 0
    /\ devices_total = 0

\* status has the server default "active"
AllActive == [u \in UserIds |-> "active"]

Init ==
    /\ InitRegistry
    /\ settings = DefaultSettings
    /\ simulator = NewSimulator
    /\ user_status = AllActive
    /\ now = 0
    /\ devices = [d \in DeviceIds |->
                    CASE d = "d1" -> "active"
                      [] d = "d2" -> "inactive"
                      [] OTHER    -> "absent"]
    /\ users = {"u1"}
    /\ healthchecks = <<>>
    /\ connections = <<>>
    /\ audit_logs = <<>>
    /\ authorization_decisions_total = [d \in {"allow", "deny"} |-> 0]
    /\ connections_total = [k \in Services \X {"authorized", "denied"} |-> 0]
    /\ connections_active = [s \in Services |-> 0]
    /\ health_checks_total = 0
    /\ pc = [p \in Workers |-> "idle"]
    /\ args = [p \in Workers |-> NoArgs]
    /\ loc = [p \in Workers |-> NoLoc]
    /\ pending = [p \in Workers |-> <<>>]
    /\ response = [p \in Workers |-> NoResponse]

\* ------------------------------------------------------------- clock
Tick ==
    /\ \E t \in Times : t > now /\ now' = t
    /\ UNCHANGED <<tables, registry, metrics, pc, args, loc, pending, response>>

\* ------------------------------------------------------- the session
\* a db.add that was left out
SessionAdd_Omitted(ops, o) == ops

\* db.add(row): the change waits in the session for the next commit.
SessionAdd(ops, o) == Append(ops, o)

\* The flush of a commit: the pending changes, in order, reach the tables.
\* db is [audit_logs, connections]; t is the server clock (func.now()).
RECURSIVE Flush(_, _, _)
Flush(db, ops, t) ==
    IF ops = <<>> THEN db
    ELSE LET o == Head(ops)
             al == db.audit_logs
             cs == db.connections
             next ==
               CASE o.op = "add_audit" ->
                      [db EXCEPT !.audit_logs =
                          Append(al, [o.row EXCEPT !.id = Len(al) + 1])]
                 [] o.op = "add_connection" ->
                      [db EXCEPT !.connections =
                          Append(cs, [o.row EXCEPT !.id = Len(cs) + 1,
                                                   !.established_at = t])]
                 [] o.op = "update_connection" ->
                      [db EXCEPT !.connections =
                          [i \in DOMAIN cs |->
                             IF cs[i].connection_id = o.row.connection_id
                             THEN [cs[i] EXCEPT !.status = o.row.status,
                                                !.terminated_at = o.row.terminated_at]
                             ELSE cs[i]]]
         IN Flush(next, Tail(ops), t)

\* The state of the tables and of a session, as a pair.
Stored(ops) == [audit_logs |-> audit_logs, connections |-> connections, pending |-> ops]

\* await db.commit() on a session whose pending changes are ops
Commit(ops) ==
    LET db == Flush([audit_logs |-> audit_logs, connections |-> connections], ops, now)
    IN [audit_logs |-> db.audit_logs, connections |-> db.connections, pending |-> <<>>]

\* await session.rollback(): the pending changes are dropped
Rollback(ops) == Stored(<<>>)

\* select(Connection).where(connection_id == cid) -> scalar_one_or_none()
ConnectionIndex(cid) ==
    IF \E i \in DOMAIN connections : connections[i].connection_id = cid
    THEN CHOOSE i \in DOMAIN connections : connections[i].connection_id = cid
    ELSE 0

\* the query ordered by reported_at ascending
LatestHealthCheck_Oldest(d) ==
    LET rows == {i \in DOMAIN healthchecks : healthchecks[i].device_id = d}
    IN IF rows = {} THEN 0
       ELSE CHOOSE i \in rows :
              \A j \in rows : healthchecks[i].reported_at <= healthchecks[j].reported_at

\* select(HealthCheck).where(device_id == d).order_by(desc(reported_at)).limit(1)
LatestHealthCheck(d) ==
    LET rows == {i \in DOMAIN healthchecks : healthchecks[i].device_id = d}
    IN IF rows = {} THEN 0
       ELSE CHOOSE i \in rows :
              \A j \in rows : healthchecks[j].reported_at <= healthchecks[i].reported_at

\* ------------------------------------------------------ policy client
\* What the remote call of evaluate_policy can do: time out, fail in
\* transport or with an HTTP error status, answer with a body that is not a
\* JSON object, fail in some other way, or answer with a JSON object.
HttpErrors == {"connection refused"}
ResultValues == {JTrue, JFalse}
FailureKinds == {"timeout", "http_error", "malformed", "exception"}
RemoteOutcomes ==
    {[kind |-> k, body |-> EmptyDict, err |-> ""] :
        k \in {"timeout", "malformed", "exception"}}
    \cup {[kind |-> "http_error", body |-> EmptyDict, err |-> e] : e \in HttpErrors}
    \cup {[kind |-> "ok", body |-> [k \in {"result"} |-> v], err |-> ""] :
            v \in ResultValues}
    \cup {[kind |-> "ok", body |-> EmptyDict, err |-> ""]}

\* An exception that leaves a function, as a value.
Raise(e) == [k \in {"__raise__"} |-> e]
Raises(v) == "__raise__" \in DOMAIN v

\* The dict of an except branch.
FailClosed(msg) ==
    [k \in {"allowed", "decision", "error"} |->
        CASE k = "allowed" -> JFalse
          [] k = "decision" -> "deny"
          [] OTHER -> msg]

\* evaluate_policy with a timeout branch that lets the request through
evaluate_policy_FailOpen(outcome) ==
    CASE outcome.kind = "ok" ->
           LET allowed == Get(outcome.body, "result", JFalse)
           IN [k \in {"allowed", "decision"} |->
                 IF k = "allowed" THEN allowed
                 ELSE IF Truthy(allowed) THEN "allow" ELSE "deny"]
      [] outcome.kind = "timeout" ->
           [k \in {"allowed", "decision"} |-> IF k = "allowed" THEN JTrue ELSE "allow"]
      [] outcome.kind = "http_error" ->
           FailClosed("Policy service unavailable: " \o outcome.err)
      [] OTHER ->
           FailClosed("Policy evaluation failed")

\* evaluate_policy without the last except branch
evaluate_policy_NoCatchAll(outcome) ==
    CASE outcome.kind = "ok" ->
           LET allowed == Get(outcome.body, "result", JFalse)
           IN [k \in {"allowed", "decision"} |->
                 IF k = "allowed" THEN allowed
                 ELSE IF Truthy(allowed) THEN "allow" ELSE "deny"]
      [] outcome.kind = "timeout" ->
           FailClosed("Policy service timeout - access denied for safety")
      [] outcome.kind = "http_error" ->
           FailClosed("Policy service unavailable: " \o outcome.err)
      [] OTHER ->
           Raise("Exception")

\* OPAClient.evaluate_policy
evaluate_policy(outcome) ==
    CASE outcome.kind = "ok" ->
           LET allowed == Get(outcome.body, "result", JFalse)
           IN [k \in {"allowed", "decision"} |->
                 IF k = "allowed" THEN allowed
                 ELSE IF Truthy(allowed) THEN "allow" ELSE "deny"]
      [] outcome.kind = "timeout" ->
           FailClosed("Policy service timeout - access denied for safety")
      [] outcome.kind = "http_error" ->
           FailClosed("Policy service unavailable: " \o outcome.err)
      [] OTHER ->
           FailClosed("Policy evaluation failed")

\* ------------------------------------------------------------ metrics
\* MetricsService.record_authorization_decision: the counter's new value
record_authorization_decision(counter, allowed) ==
    [counter EXCEPT ![IF Truthy(allowed) THEN "allow" ELSE "deny"] = @ + 1]

\* MetricsService.record_connection_request, its effect on connections_total
ConnectionRequestCounted(counter, service, authorized) ==
    [counter EXCEPT ![<<service, IF authorized THEN "authorized" ELSE "denied">>] = @ + 1]

\* a gauge that counts every request, granted or not
ConnectionRequestGauged_Always(gauge, service, authorized) ==
    [gauge EXCEPT ![service] = @ + 1]

\* MetricsService.record_connection_request, its effect on connections_active
ConnectionRequestGauged(gauge, service, authorized) ==
    IF authorized THEN [gauge EXCEPT ![service] = @ + 1] ELSE gauge

\* ------------------------------------------------- request_connection
\* the allow signal read from field allowed alone
ExtractAllowed_NoFallback(policy_result) == Get(policy_result, "allowed", JFalse)

\* policy_result.get("allowed", policy_result.get("allow", False))
ExtractAllowed(policy_result) ==
    Get(policy_result, "allowed", Get(policy_result, "allow", JFalse))

\* policy_result.get("decision", "allow" if allowed else "deny")
ExtractDecision(policy_result) ==
    Get(policy_result, "decision",
        IF Truthy(ExtractAllowed(policy_result)) THEN "allow" ELSE "deny")

\* the freshness comparison with >= in place of >
HealthStale_NonStrict(hc) == now - hc.reported_at >= HealthMaxAge

\* health_age > timedelta(minutes=5)
HealthStale(hc) == now - hc.reported_at > HealthMaxAge

\* the gates with the user lookup moved in front of the device lookup
ValidationGates_UserFirst(d, u) ==
    LET h == LatestHealthCheck(d) IN
    CASE u \notin users         -> HTTPException(404, "User not found")
      [] devices[d] = "absent"  -> HTTPException(404, "Device not found")
      [] devices[d] # "active"  -> HTTPException(403, "Device is not active")
      [] h = 0                  -> HTTPException(503, "No health check data available for device")
      [] HealthStale(healthchecks[h]) ->
             HTTPException(503, "Health check data is stale (older than 5 minutes)")
      [] OTHER                  -> NoResponse

\* the gates without the freshness check
ValidationGates_NoFreshness(d, u) ==
    LET h == LatestHealthCheck(d) IN
    CASE devices[d] = "absent"  -> HTTPException(404, "Device not found")
      [] devices[d] # "active"  -> HTTPException(403, "Device is not active")
      [] u \notin users         -> HTTPException(404, "User not found")
      [] h = 0                  -> HTTPException(503, "No health check data available for device")
      [] OTHER                  -> NoResponse

\* gates that refuse a pair that holds an established connection
ValidationGates_Exclusive(d, u) ==
    LET h == LatestHealthCheck(d) IN
    CASE devices[d] = "absent"  -> HTTPException(404, "Device not found")
      [] devices[d] # "active"  -> HTTPException(403, "Device is not active")
      [] u \notin users         -> HTTPException(404, "User not found")
      [] h = 0                  -> HTTPException(503, "No health check data available for device")
      [] HealthStale(healthchecks[h]) ->
             HTTPException(503, "Health check data is stale (older than 5 minutes)")
      [] \E i \in DOMAIN connections :
             /\ connections[i].device_id = d
             /\ connections[i].user_id = u
             /\ connections[i].status = "established" ->
             HTTPException(409, "Connection already established")
      [] OTHER                  -> NoResponse

\* a user gate that also wants the user to be active
ValidationGates_ActiveUser(d, u) ==
    LET h == LatestHealthCheck(d) IN
    CASE devices[d] = "absent"  -> HTTPException(404, "Device not found")
      [] devices[d] # "active"  -> HTTPException(403, "Device is not active")
      [] u \notin users         -> HTTPException(404, "User not found")
      [] user_status[u] # "active" -> HTTPException(403, "User is not active")
      [] h = 0                  -> HTTPException(503, "No health check data available for device")
      [] HealthStale(healthchecks[h]) ->
             HTTPException(503, "Health check data is stale (older than 5 minutes)")
      [] OTHER                  -> NoResponse

\* Stages 1 to 5: the response of the first failing gate, NoResponse if none fails.
ValidationGates(d, u) ==
    LET h == LatestHealthCheck(d) IN
    CASE devices[d] = "absent"  -> HTTPException(404, "Device not found")
      [] devices[d] # "active"  -> HTTPException(403, "Device is not active")
      [] u \notin users         -> HTTPException(404, "User not found")
      [] h = 0                  -> HTTPException(503, "No health check data available for device")
      [] HealthStale(healthchecks[h]) ->
             HTTPException(503, "Health check data is stale (older than 5 minutes)")
      [] OTHER                  -> NoResponse

\* attempts that reached the policy stage so far
AttemptsEvaluated ==
    authorization_decisions_total["allow"] + authorization_decisions_total["deny"]
    + Cardinality({p \in Workers : pc[p] = "opa"})

\* str(uuid.uuid4()): a value no earlier call returned
UsedConnIds ==
    {connections[i].connection_id : i \in DOMAIN connections}
    \cup UNION {{pending[p][i].row.connection_id :
                    i \in {j \in DOMAIN pending[p] : pending[p][j].op = "add_connection"}} :
                p \in Workers}
uuid4 ==
    LET free == (1..(Cardinality(UsedConnIds) + 1)) \ UsedConnIds
    IN CHOOSE c \in free : \A e \in free : c <= e

\* an audit row that keeps only the decision fields of the policy result
AuditRecord_DecisionOnly(request, decision, policy_result) ==
    [id |-> 0,
     event_type |-> "connection_request",
     action |-> "request_connection",
     device_id |-> request.device_id,
     user_id |-> request.user_id,
     service_name |-> request.service_name,
     decision |-> decision,
     policy_version |-> "v1.0",
     extra_data |-> [opa_result |->
                        [k \in {"allowed", "decision"} |-> policy_result[k]]]]

\* AuditLog(...), lines 137-146
AuditRecord(request, decision, policy_result) ==
    [id |-> 0,
     event_type |-> "connection_request",
     action |-> "request_connection",
     device_id |-> request.device_id,
     user_id |-> request.user_id,
     service_name |-> request.service_name,
     decision |-> decision,
     policy_version |-> "v1.0",
     extra_data |-> [opa_result |-> policy_result]]

\* a Connection inserted in a state that waits for a later confirmation
ConnectionRecord_Requested(request, connection_id) ==
    [id |-> 0,
     connection_id |-> connection_id,
     device_id |-> request.device_id,
     user_id |-> request.user_id,
     service_name |-> request.service_name,
     status |-> "requested",
     established_at |-> NULL,
     terminated_at |-> NULL]

\* Connection(...), lines 161-167
ConnectionRecord(request, connection_id) ==
    [id |-> 0,
     connection_id |-> connection_id,
     device_id |-> request.device_id,
     user_id |-> request.user_id,
     service_name |-> request.service_name,
     status |-> "established",
     established_at |-> NULL,
     terminated_at |-> NULL]

\* the denial test with a misspelt literal
IsDenied_Misspelt(decision) == decision = "denied"

\* if decision == "deny"
IsDenied(decision) == decision = "deny"

\* x or False, x or 0.0
OrFalse(v) == IF Truthy(v) THEN v ELSE JFalse
OrZero(v) == IF Truthy(v) THEN v ELSE "0.0"

\* user.email and user.role, the columns that the policy input reads
UserEmail(u) == u \o "@example.com"
UserRole(u) == IF u = "u1" THEN "developer" ELSE "analyst"

\* current_time.hour and current_time.isoweekday() of an instant in seconds
\* since the epoch, a Thursday
Hour(t) == (t \div 3600) % 24
IsoWeekday(t) == ((t \div 86400 + 3) % 7) + 1

\* the document with the columns of the health check as they are
PolicyInput_NoDefaults(d, u, s) ==
    LET healthcheck == healthchecks[LatestHealthCheck(d)] IN
    [device |-> [device_id |-> d,
                 authenticated |-> JTrue,
                 status |-> devices[d],
                 os_patches_current |-> healthcheck.os_patches_current,
                 antivirus_enabled |-> healthcheck.antivirus_enabled,
                 disk_encrypted |-> healthcheck.disk_encrypted,
                 cpu_usage |-> healthcheck.cpu_usage,
                 memory_usage |-> healthcheck.memory_usage],
     user |-> [user_id |-> u, email |-> UserEmail(u), role |-> UserRole(u)],
     service |-> [name |-> s],
     time |-> [hour |-> Hour(now), day_of_week |-> IsoWeekday(now)]]

\* Lines 94-119: the OPA input document, built from the rows the gates read.
PolicyInput(d, u, s) ==
    LET healthcheck == healthchecks[LatestHealthCheck(d)] IN
    [device |-> [device_id |-> d,
                 authenticated |-> JTrue,
                 status |-> devices[d],
                 os_patches_current |-> OrFalse(healthcheck.os_patches_current),
                 antivirus_enabled |-> OrFalse(healthcheck.antivirus_enabled),
                 disk_encrypted |-> OrFalse(healthcheck.disk_encrypted),
                 cpu_usage |-> OrZero(healthcheck.cpu_usage),
                 memory_usage |-> OrZero(healthcheck.memory_usage)],
     user |-> [user_id |-> u, email |-> UserEmail(u), role |-> UserRole(u)],
     service |-> [name |-> s],
     time |-> [hour |-> Hour(now), day_of_week |-> IsoWeekday(now)]]

\* virtual_tunnel of the response: a mock WireGuard descriptor
VirtualTunnel(service) ==
    [type |-> "wireguard",
     endpoint |-> "wg://" \o service \o ".edgemesh.local",
     public_key |-> "mock-public-key",
     allowed_ips |-> <<"10.0.0.0/8">>]

\* a response that repeats the status of the row
ConnectionResponse_RowStatus(connection_id, service) ==
    [NoResponse EXCEPT !.status = 200, !.detail = "established",
                       !.connection_id = connection_id,
                       !.service_name = service,
                       !.virtual_tunnel = VirtualTunnel(service)]

\* ConnectionResponse(connection_id=..., status="authorized", ...); the
\* status of the body is kept in detail
ConnectionResponse(connection_id, service) ==
    [NoResponse EXCEPT !.status = 200, !.detail = "authorized",
                       !.connection_id = connection_id,
                       !.service_name = service,
                       !.virtual_tunnel = VirtualTunnel(service)]

\* Lines 46-124: the gates, the policy input, the start of the policy call.
\* The model follows at most n attempts into the policy stage.
RequestConnection_ValidateUpTo(p, d, u, s, n) ==
    /\ pc[p] = "idle"
    /\ LET gate == ValidationGates(d, u) IN
       IF gate # NoResponse
       THEN /\ response' = [response EXCEPT ![p] = gate]
            /\ pc' = [pc EXCEPT ![p] = "exit"]
            /\ loc' = [loc EXCEPT ![p].in_transaction = TRUE]
       ELSE /\ AttemptsEvaluated < n
            /\ pc' = [pc EXCEPT ![p] = "opa"]
            /\ loc' = [loc EXCEPT ![p].in_transaction = TRUE,
                                  ![p].called_opa = TRUE,
                                  ![p].opa_input = PolicyInput(d, u, s)]
            /\ UNCHANGED response
    /\ args' = [args EXCEPT ![p] = [NoArgs EXCEPT !.handler = "request_connection",
                                                  !.device_id = d,
                                                  !.user_id = u,
                                                  !.service_name = s]]
    /\ UNCHANGED <<now, registry, tables, metrics, pending>>

RequestConnection_Validate(p, d, u, s) ==
    RequestConnection_ValidateUpTo(p, d, u, s, MaxAttempts)

\* Lines 124-148: the policy client has returned policy_result (or raised)
\* after the remote call ended with outcome; the decision is extracted and
\* counted, the audit row is added to the session; db.commit() is awaited.
\* An exception out of evaluate_policy would leave the handler at line 124.
RequestConnection_PolicyResult(p, outcome, policy_result) ==
    /\ pc[p] = "opa"
    /\ IF Raises(policy_result)
       THEN /\ loc' = [loc EXCEPT ![p].outcome = outcome,
                                  ![p].policy_result = policy_result]
            /\ response' = [response EXCEPT
                              ![p] = HTTPException(500, "Internal Server Error")]
            /\ pc' = [pc EXCEPT ![p] = "exit"]
            /\ UNCHANGED <<authorization_decisions_total, pending>>
       ELSE LET allowed == ExtractAllowed(policy_result)
                decision == ExtractDecision(policy_result)
                audit == AuditRecord(args[p], decision, policy_result)
            IN /\ loc' = [loc EXCEPT ![p].outcome = outcome,
                                     ![p].policy_result = policy_result,
                                     ![p].allowed = allowed,
                                     ![p].decision = decision]
               /\ authorization_decisions_total' =
                     record_authorization_decision(authorization_decisions_total, allowed)
               /\ pending' = [pending EXCEPT
                     ![p] = SessionAdd(@, [op |-> "add_audit", row |-> audit])]
               /\ pc' = [pc EXCEPT ![p] = "audit_commit"]
               /\ UNCHANGED response
    /\ UNCHANGED <<now, registry, tables, connections_total, connections_active,
                   health_checks_total, args>>

\* policy_result = await opa_client.evaluate_policy(input_data=opa_input)
RequestConnection_Policy(p, outcome) ==
    RequestConnection_PolicyResult(p, outcome, evaluate_policy(outcome))

\* a denial that passes the policy client's error text on to the caller
DenialResponse_WithError(policy_result) ==
    HTTPException(403, Get(policy_result, "error", "Access denied by policy"))

\* Lines 154-157: the 403 of a denial, one detail for every policy result
DenialResponse(policy_result) == HTTPException(403, "Access denied by policy")

\* the audit row left to the commit that follows the Connection insert
AuditCommit_Skipped(ops) == Stored(ops)

\* await db.commit(), line 148
AuditCommit(ops) == Commit(ops)

\* Lines 148-169: the audit commit completes; a deny raises 403, an allow
\* adds the Connection row to the session and awaits the second commit.
RequestConnection_CommitAudit(p) ==
    /\ pc[p] = "audit_commit"
    /\ LET db == AuditCommit(pending[p])
           s == args[p].service_name
       IN /\ audit_logs' = db.audit_logs
          /\ connections' = db.connections
          /\ IF IsDenied(loc[p].decision)
             THEN /\ connections_total' =
                        ConnectionRequestCounted(connections_total, s, FALSE)
                  /\ connections_active' =
                        ConnectionRequestGauged(connections_active, s, FALSE)
                  /\ response' = [response EXCEPT
                                    ![p] = DenialResponse(loc[p].policy_result)]
                  /\ pending' = [pending EXCEPT ![p] = db.pending]
                  /\ loc' = [loc EXCEPT ![p].in_transaction = FALSE,
                                        ![p].audit_id = Len(db.audit_logs)]
                  /\ pc' = [pc EXCEPT ![p] = "exit"]
             ELSE /\ LET connection_id == uuid4
                         connection == ConnectionRecord(args[p], connection_id)
                     IN /\ pending' = [pending EXCEPT
                               ![p] = SessionAdd(db.pending,
                                         [op |-> "add_connection", row |-> connection])]
                        /\ loc' = [loc EXCEPT ![p].in_transaction = FALSE,
                                              ![p].audit_id = Len(db.audit_logs),
                                             ![p].connection_id = connection_id]
                  /\ pc' = [pc EXCEPT ![p] = "conn_commit"]
                  /\ UNCHANGED <<connections_total, connections_active, response>>
    /\ UNCHANGED <<now, registry, devices, users, healthchecks, authorization_decisions_total,
                   health_checks_total, args>>

\* Lines 169-185: the connection commit completes, the request is counted
\* as authorized and the grant is returned.
RequestConnection_CommitConnection(p) ==
    /\ pc[p] = "conn_commit"
    /\ LET db == Commit(pending[p])
           s == args[p].service_name
       IN /\ audit_logs' = db.audit_logs
          /\ connections' = db.connections
          /\ pending' = [pending EXCEPT ![p] = db.pending]
          /\ connections_total' = ConnectionRequestCounted(connections_total, s, TRUE)
          /\ connections_active' = ConnectionRequestGauged(connections_active, s, TRUE)
          /\ response' = [response EXCEPT
                 ![p] = ConnectionResponse(loc[p].connection_id, s)]
    /\ pc' = [pc EXCEPT ![p] = "exit"]
    /\ UNCHANGED <<now, registry, devices, users, healthchecks, authorization_decisions_total,
                   health_checks_total, args, loc>>

\* ----------------------------------------------- terminate_connection
\* a termination that accepts any connection it finds
AlreadyTerminated_Never(connection) == FALSE

\* if connection.status == "terminated"
AlreadyTerminated(connection) == connection.status = "terminated"

\* a termination that sets the status alone
Terminated_StatusOnly(connection, t) == [connection EXCEPT !.status = "terminated"]

\* connection.status = "terminated"; connection.terminated_at = now
Terminated(connection, t) ==
    [connection EXCEPT !.status = "terminated", !.terminated_at = t]

\* Lines 247-264: the lookup, the two rejections, the update of the loaded
\* row; db.commit() is awaited.
TerminateConnection_Read(p, cid) ==
    /\ pc[p] = "idle"
    /\ args' = [args EXCEPT ![p] = [NoArgs EXCEPT !.handler = "terminate_connection",
                                                  !.connection_id = cid]]
    /\ LET i == ConnectionIndex(cid) IN
       IF i = 0
       THEN /\ response' = [response EXCEPT ![p] = HTTPException(404, "Connection not found")]
            /\ pc' = [pc EXCEPT ![p] = "exit"]
            /\ UNCHANGED pending
       ELSE IF AlreadyTerminated(connections[i])
       THEN /\ response' = [response EXCEPT
                              ![p] = HTTPException(400, "Connection already terminated")]
            /\ pc' = [pc EXCEPT ![p] = "exit"]
            /\ UNCHANGED pending
       ELSE /\ pending' = [pending EXCEPT ![p] =
                  <<[op |-> "update_connection", row |-> Terminated(connections[i], now)]>>]
            /\ pc' = [pc EXCEPT ![p] = "term_commit"]
            /\ UNCHANGED response
    /\ loc' = [loc EXCEPT ![p].in_transaction = TRUE]
    /\ UNCHANGED <<now, registry, tables, metrics>>

\* Lines 264-272: the commit completes, the gauge is decremented, 200.
TerminateConnection_Commit(p) ==
    /\ pc[p] = "term_commit"
    /\ LET db == Commit(pending[p])
           connection == pending[p][1].row
       IN /\ audit_logs' = db.audit_logs
          /\ connections' = db.connections
          /\ pending' = [pending EXCEPT ![p] = db.pending]
          /\ connections_active' =
                [connections_active EXCEPT ![connection.service_name] = @ - 1]
    /\ response' = [response EXCEPT
           ![p] = [NoResponse EXCEPT !.status = 200,
                                     !.detail = "Connection terminated",
                                     !.connection_id = args[p].connection_id]]
    /\ pc' = [pc EXCEPT ![p] = "exit"]
    /\ loc' = [loc EXCEPT ![p].in_transaction = FALSE]
    /\ UNCHANGED <<now, registry, devices, users, healthchecks, authorization_decisions_total,
                   connections_total, health_checks_total, args>>

\* ------------------------------------------------------------- get_db
\* The handler has returned or raised: commit on return, rollback on an
\* exception; the response goes out and the worker takes the next request.
Raised(p) == response[p].status >= 400

GetDb_Exit(p) ==
    /\ pc[p] = "exit"
    /\ LET db == IF Raised(p) THEN Rollback(pending[p]) ELSE Commit(pending[p])
       IN /\ audit_logs' = db.audit_logs
          /\ connections' = db.connections
          /\ pending' = [pending EXCEPT ![p] = db.pending]
    /\ pc' = [pc EXCEPT ![p] = "idle"]
    /\ args' = [args EXCEPT ![p] = NoArgs]
    /\ loc' = [loc EXCEPT ![p] = NoLoc]
    /\ response' = [response EXCEPT ![p] = NoResponse]
    /\ UNCHANGED <<now, registry, devices, users, healthchecks, metrics>>

\* ------------------------------------------------------ report_health
\* The handler sets device_id, status and metrics only; the other columns
\* keep their defaults (NULL, reported_at = func.now()).  The device_id of
\* the request is not looked up: a report is stored for any device id.
ReportHealth(d) ==
    /\ Len(healthchecks) < MaxHealthChecks
    /\ healthchecks' = Append(healthchecks,
           [id |-> Len(healthchecks) + 1,
            device_id |-> d,
            status |-> "healthy",
            cpu_usage |-> JNull,
            memory_usage |-> JNull,
            os_patches_current |-> JNull,
            antivirus_enabled |-> JNull,
            disk_encrypted |-> JNull,
            reported_at |-> now])
    /\ health_checks_total' = health_checks_total + 1
    /\ UNCHANGED <<now, registry, devices, users, connections, audit_logs,
                   authorization_decisions_total, connections_total,
                   connections_active, pc, args, loc, pending, response>>

\* --------------------------------------------------------------- spec
Next ==
    \/ Tick
    \/ \E d \in DeviceIds : ReportHealth(d)
    \/ \E p \in Workers, d \in DeviceIds, u \in UserIds, s \in Services :
          RequestConnection_Validate(p, d, u, s)
    \/ \E p \in Workers, o \in RemoteOutcomes : RequestConnection_Policy(p, o)
    \/ \E p \in Workers : RequestConnection_CommitAudit(p)
    \/ \E p \in Workers : RequestConnection_CommitConnection(p)
    \/ \E p \in Workers, cid \in ConnIds : TerminateConnection_Read(p, cid)
    \/ \E p \in Workers : TerminateConnection_Commit(p)
    \/ \E p \in Workers : GetDb_Exit(p)

Spec == Init /\ [][Next]_vars

\* ------------------------------------------- a failing entity store
\* a handler that swallows the exception of a commit and answers as usual
CommitError_Swallowed(p) ==
    [NoResponse EXCEPT !.status = 200, !.detail = "authorized",
                       !.connection_id = loc[p].connection_id]

\* The exception of a failed commit leaves the handler and get_db re-raises
\* it: the caller gets a 500.
CommitError(p) == HTTPException(500, "Internal Server Error")

\* await db.commit() raises (lines 148, 169, 264): nothing of the session
\* reaches the tables and the handler is left at that line.
DbCommit_Raises(p) ==
    /\ pc[p] \in {"audit_commit", "conn_commit", "term_commit"}
    /\ response' = [response EXCEPT ![p] = CommitError(p)]
    /\ pc' = [pc EXCEPT ![p] = "exit"]
    /\ UNCHANGED <<now, registry, tables, metrics, args, loc, pending>>

NextDbFault ==
    \/ Next
    \/ \E p \in Workers : DbCommit_Raises(p)

SpecDbFault == Init /\ [][NextDbFault]_vars

\* ------------------------------------------- the freshness gate alone
\* Requests against a device whose latest report has an age around the
\* maximum: 4:59, 5:00 and 5:01.  The clock is read once per request (line
\* 86), so the instant of the request is drawn in the initial state.
BoundaryAges == {HealthMaxAge - 1, HealthMaxAge, HealthMaxAge + 1}
ReportInstants == {0, 60}

HealthRow(d, t) ==
    [id |-> 1, device_id |-> d, status |-> "healthy",
     cpu_usage |-> JNull, memory_usage |-> JNull,
     os_patches_current |-> JNull, antivirus_enabled |-> JNull,
     disk_encrypted |-> JNull, reported_at |-> t]

\* The tables with the health check rows hcs, read at instant t; us are the
\* users that have a row and st their statuses; cfg are the settings the
\* process was started with.
InitSeeded(hcs, t, us, st, cfg) ==
    /\ InitRegistry
    /\ settings = cfg
    /\ simulator = NewSimulator
    /\ user_status = st
    /\ healthchecks = hcs
    /\ now = t
    /\ devices = [d \in DeviceIds |->
                    CASE d = "d1" -> "active"
                      [] d = "d2" -> "inactive"
                      [] OTHER    -> "absent"]
    /\ users = us
    /\ connections = <<>>
    /\ audit_logs = <<>>
    /\ authorization_decisions_total = [d \in {"allow", "deny"} |-> 0]
    /\ connections_total = [k \in Services \X {"authorized", "denied"} |-> 0]
    /\ connections_active = [s \in Services |-> 0]
    /\ health_checks_total = Len(hcs)
    /\ pc = [p \in Workers |-> "idle"]
    /\ args = [p \in Workers |-> NoArgs]
    /\ loc = [p \in Workers |-> NoLoc]
    /\ pending = [p \in Workers |-> <<>>]
    /\ response = [p \in Workers |-> NoResponse]

\* The tables after device d1 has reported at instant t, read a seconds later.
InitConfigured(t, a, us, st, cfg) ==
    InitSeeded(<<HealthRow("d1", t)>>, t + a, us, st, cfg)

InitWorld(t, a, us, st) == InitConfigured(t, a, us, st, DefaultSettings)

InitReported(t, a) == InitWorld(t, a, {"u1"}, AllActive)

InitFreshness == \E t \in ReportInstants, a \in BoundaryAges : InitReported(t, a)

NextFreshness ==
    \/ \E p \in Workers, d \in DeviceIds, u \in UserIds, s \in Services :
          RequestConnection_Validate(p, d, u, s)
    \/ \E p \in Workers, o \in RemoteOutcomes : RequestConnection_Policy(p, o)
    \/ \E p \in Workers : RequestConnection_CommitAudit(p)
    \/ \E p \in Workers : RequestConnection_CommitConnection(p)
    \/ \E p \in Workers : GetDb_Exit(p)

SpecFreshness == InitFreshness /\ [][NextFreshness]_vars

\* ------------------------------------------ the timer of the remote call
\* client.post(..., timeout=settings.OPA_TIMEOUT): loc[p].waited counts the
\* seconds the call of worker p has been waiting for the engine.
\* a call made without a timeout
TimerExpired_Never(waited) == FALSE

TimerExpired(waited) == waited >= OPA_TIMEOUT

\* the model follows a call for at most this long
MaxWait == OPA_TIMEOUT + 1

TimeoutOutcome == [kind |-> "timeout", body |-> EmptyDict, err |-> ""]

\* A second passes and the engine has not answered.
PolicyCall_Wait(p) ==
    /\ pc[p] = "opa"
    /\ ~TimerExpired(loc[p].waited)
    /\ loc[p].waited < MaxWait
    /\ loc' = [loc EXCEPT ![p].waited = @ + 1]
    /\ UNCHANGED <<now, registry, tables, metrics, pc, args, pending, response>>

\* The timer fires: httpx raises TimeoutException into evaluate_policy.
PolicyCall_Expire(p) ==
    /\ TimerExpired(loc[p].waited)
    /\ RequestConnection_Policy(p, TimeoutOutcome)

\* The engine answers, or the call fails otherwise, before the timer fires.
PolicyCall_Answer(p, outcome) ==
    /\ ~TimerExpired(loc[p].waited)
    /\ outcome.kind # "timeout"
    /\ RequestConnection_Policy(p, outcome)

InitLive == InitReported(0, 60)

NextLive ==
    \/ \E p \in Workers, d \in DeviceIds, u \in UserIds, s \in Services :
          RequestConnection_Validate(p, d, u, s)
    \/ \E p \in Workers : PolicyCall_Wait(p)
    \/ \E p \in Workers : PolicyCall_Expire(p)
    \/ \E p \in Workers, o \in RemoteOutcomes : PolicyCall_Answer(p, o)
    \/ \E p \in Workers : RequestConnection_CommitAudit(p)
    \/ \E p \in Workers : RequestConnection_CommitConnection(p)
    \/ \E p \in Workers : GetDb_Exit(p)

\* The event loop resumes every coroutine that can go on: timers fire and
\* the commits of the entity store complete.  The engine owes no answer.
FairLive ==
    \A p \in Workers :
        /\ WF_vars(PolicyCall_Wait(p))
        /\ WF_vars(PolicyCall_Expire(p))
        /\ WF_vars(RequestConnection_CommitAudit(p))
        /\ WF_vars(RequestConnection_CommitConnection(p))
        /\ WF_vars(GetDb_Exit(p))

SpecLive == InitLive /\ [][NextLive]_vars /\ FairLive

\* ------------------------------------------ check_device_compliance
\* A value that a function returns, as opposed to an exception it raises.
Return(v) == [k \in {"__return__"} |-> v]

\* OPAClient.check_device_compliance: one except branch, for httpx.HTTPError
\* (httpx.TimeoutException is a subclass of it); a body that is no JSON
\* object and any other exception are not caught.
check_device_compliance(outcome) ==
    CASE outcome.kind = "ok" -> Return(Get(outcome.body, "result", JFalse))
      [] outcome.kind \in {"timeout", "http_error"} -> Return(JFalse)
      [] OTHER -> Raise("Exception")

\* A caller starts a compliance check for device d; the call is in flight.
CheckDeviceCompliance_Call(p, d) ==
    /\ pc[p] = "idle"
    /\ args' = [args EXCEPT ![p] = [NoArgs EXCEPT !.handler = "check_device_compliance",
                                                  !.device_id = d]]
    /\ loc' = [loc EXCEPT ![p] = NoLoc]
    /\ pc' = [pc EXCEPT ![p] = "compliance"]
    /\ UNCHANGED <<now, registry, tables, metrics, pending, response>>

\* The remote call ends with outcome; the caller has the result, or the
\* exception, of check_device_compliance.
CheckDeviceCompliance_Return(p, outcome) ==
    /\ pc[p] = "compliance"
    /\ loc' = [loc EXCEPT ![p].outcome = outcome,
                           ![p].policy_result = check_device_compliance(outcome)]
    /\ pc' = [pc EXCEPT ![p] = "idle"]
    /\ UNCHANGED <<now, registry, tables, metrics, args, pending, response>>

NextCompliance ==
    \/ \E p \in Workers, d \in DeviceIds : CheckDeviceCompliance_Call(p, d)
    \/ \E p \in Workers, o \in RemoteOutcomes : CheckDeviceCompliance_Return(p, o)

SpecCompliance == Init /\ [][NextCompliance]_vars

\* ------------------------------------------ evaluate_policy, called alone
\* What the engine can put in the result field of a 200 answer: the two
\* booleans and JSON values of other types.
EngineResults == {JTrue, JFalse, JYes, JOne}
EngineOutcomes ==
    RemoteOutcomes
    \cup {[kind |-> "ok", body |-> [k \in {"result"} |-> v], err |-> ""] :
            v \in EngineResults}

\* A caller starts evaluate_policy with the input document of device d.
EvaluatePolicy_Call(p, d) ==
    /\ pc[p] = "idle"
    /\ args' = [args EXCEPT ![p] = [NoArgs EXCEPT !.handler = "evaluate_policy",
                                                  !.device_id = d]]
    /\ loc' = [loc EXCEPT ![p] = NoLoc]
    /\ pc' = [pc EXCEPT ![p] = "evaluate"]
    /\ UNCHANGED <<now, registry, tables, metrics, pending, response>>

\* The remote call ends with outcome; the caller has the returned dict.
EvaluatePolicy_Return(p, outcome) ==
    /\ pc[p] = "evaluate"
    /\ loc' = [loc EXCEPT ![p].outcome = outcome,
                           ![p].policy_result = evaluate_policy(outcome)]
    /\ pc' = [pc EXCEPT ![p] = "idle"]
    /\ UNCHANGED <<now, registry, tables, metrics, args, pending, response>>

NextPolicyClient ==
    \/ \E p \in Workers, d \in DeviceIds : EvaluatePolicy_Call(p, d)
    \/ \E p \in Workers, o \in EngineOutcomes : EvaluatePolicy_Return(p, o)

SpecPolicyClient == Init /\ [][NextPolicyClient]_vars

\* ------------------------------------------ requests of one pair
\* Requests of user u1 on device d1, as many in the policy stage and
\* beyond as there are workers to serve them at once.
MaxPairAttempts == MaxAttempts + 1

InitPair == InitReported(0, 60)

NextPair ==
    \/ \E p \in Workers, s \in Services :
          RequestConnection_ValidateUpTo(p, "d1", "u1", s, MaxPairAttempts)
    \/ \E p \in Workers, o \in RemoteOutcomes : RequestConnection_Policy(p, o)
    \/ \E p \in Workers : RequestConnection_CommitAudit(p)
    \/ \E p \in Workers : RequestConnection_CommitConnection(p)
    \/ \E p \in Workers : GetDb_Exit(p)

SpecPair == InitPair /\ [][NextPair]_vars

\* ------------------------------------------ a patched policy client
\* The unit tests replace OPAClient.evaluate_policy by a mock whose return
\* value is any dict over the fields request_connection reads.
PolicyFields == {"allowed", "allow", "decision"}
FieldValues(k) == IF k = "decision" THEN {"allow", "deny"} ELSE {JTrue, JFalse}
MockResults ==
    UNION {{f \in [K -> {JTrue, JFalse, "allow", "deny"}] :
                \A k \in K : f[k] \in FieldValues(k)} : K \in SUBSET PolicyFields}
MockOutcome == [kind |-> "mock", body |-> EmptyDict, err |-> ""]

InitMock == InitReported(0, 60)

NextMock ==
    \/ \E p \in Workers, d \in DeviceIds, u \in UserIds, s \in Services :
          RequestConnection_Validate(p, d, u, s)
    \/ \E p \in Workers, r \in MockResults :
          RequestConnection_PolicyResult(p, MockOutcome, r)
    \/ \E p \in Workers : RequestConnection_CommitAudit(p)
    \/ \E p \in Workers : RequestConnection_CommitConnection(p)
    \/ \E p \in Workers : GetDb_Exit(p)

SpecMock == InitMock /\ [][NextMock]_vars

\* ------------------------------------------------------ enroll_device
\* settings.ENROLLMENT_TOKEN_SECRET and the tokens that requests present
ENROLLMENT_TOKEN_SECRET == "change-me-in-production"
Tokens == {ENROLLMENT_TOKEN_SECRET, "guess"}

\* x509.random_serial_number(): any serial, one that a certificate already
\* carries included
Serials == {1, 2, 3}

\* Device(device_id=..., certificate_serial=serial, ...); status has the
\* server default "active"
DeviceRecord(d, serial) ==
    [device_id |-> d, certificate_serial |-> serial, status |-> "active"]

\* The insert violates the primary key (device_id) or the unique
\* certificate_serial column.
IntegrityError(row) ==
    \/ devices[row.device_id] # "absent"
    \/ \E d \in DeviceIds : certificate_serials[d] = row.certificate_serial

\* the enrollment counted whatever the commit did
EnrollmentRecorded_Always(n, committed) == n + 1

\* MetricsService.record_device_enrollment() follows the commit inside the
\* try block: it runs only when the commit did not raise.
EnrollmentRecorded(n, committed) == IF committed THEN n + 1 ELSE n

\* Lines 38-60: the token check, the certificate, db.add(device).
EnrollDevice_Start(p, d, token) ==
    /\ pc[p] = "idle"
    /\ args' = [args EXCEPT ![p] = [NoArgs EXCEPT !.handler = "enroll_device",
                                                  !.device_id = d]]
    /\ IF token # ENROLLMENT_TOKEN_SECRET
       THEN /\ response' = [response EXCEPT ![p] =
                               HTTPException(401, "Invalid enrollment token")]
            /\ pc' = [pc EXCEPT ![p] = "exit"]
            /\ UNCHANGED pending
       ELSE /\ \E serial \in Serials :
                 pending' = [pending EXCEPT ![p] =
                    SessionAdd(pending[p],
                               [op |-> "add_device", row |-> DeviceRecord(d, serial)])]
            /\ pc' = [pc EXCEPT ![p] = "enroll_commit"]
            /\ UNCHANGED response
    /\ UNCHANGED <<now, tables, registry, metrics, loc>>

\* Lines 61-74: await db.commit(), the metric, the except branch with its
\* rollback, the response.
EnrollDevice_Commit(p) ==
    /\ pc[p] = "enroll_commit"
    /\ LET row == pending[p][Len(pending[p])].row
           committed == ~IntegrityError(row)
       IN /\ IF committed
             THEN /\ devices' = [devices EXCEPT ![row.device_id] = row.status]
                  /\ certificate_serials' =
                        [certificate_serials EXCEPT ![row.device_id] =
                                                        row.certificate_serial]
                  /\ response' = [response EXCEPT ![p] =
                        [NoResponse EXCEPT !.status = 200, !.detail = "enrolled"]]
             ELSE /\ UNCHANGED <<devices, certificate_serials>>
                  /\ response' = [response EXCEPT ![p] =
                        HTTPException(409, "Device already enrolled")]
          /\ device_enrollments_total' =
                EnrollmentRecorded(device_enrollments_total, committed)
          /\ devices_total' = EnrollmentRecorded(devices_total, committed)
    /\ pending' = [pending EXCEPT ![p] = <<>>]
    /\ pc' = [pc EXCEPT ![p] = "exit"]
    /\ UNCHANGED <<now, users, user_status, healthchecks, connections,
                   audit_logs, metrics, args, loc, settings, simulator>>

NextEnroll ==
    \/ \E p \in Workers, d \in DeviceIds, token \in Tokens :
          EnrollDevice_Start(p, d, token)
    \/ \E p \in Workers : EnrollDevice_Commit(p)
    \/ \E p \in Workers : GetDb_Exit(p)

SpecEnroll == Init /\ [][NextEnroll]_vars

\* ------------------------------------------ requests of several users
\* Both users have a row, each with any status, and request connections
\* of device d1 at the same time.
UserStatuses == {"active", "suspended"}

InitUsers == \E st \in [UserIds -> UserStatuses] : InitWorld(0, 60, UserIds, st)

NextUsers ==
    \/ \E p \in Workers, u \in UserIds, s \in Services :
          RequestConnection_ValidateUpTo(p, "d1", u, s, MaxPairAttempts)
    \/ \E p \in Workers, o \in RemoteOutcomes : RequestConnection_Policy(p, o)
    \/ \E p \in Workers : RequestConnection_CommitAudit(p)
    \/ \E p \in Workers : RequestConnection_CommitConnection(p)
    \/ \E p \in Workers : GetDb_Exit(p)

SpecUsers == InitUsers /\ [][NextUsers]_vars

\* ------------------------------------------ policy calls that fail
\* str(e) of the httpx errors that the policy call can raise
ErrorTexts == {"connection refused", "500 Internal Server Error"}
ErrorOutcomes ==
    {[kind |-> "http_error", body |-> EmptyDict, err |-> e] : e \in ErrorTexts}

InitErrors == InitReported(0, 60)

NextErrors ==
    \/ \E p \in Workers, s \in Services :
          RequestConnection_ValidateUpTo(p, "d1", "u1", s, MaxPairAttempts)
    \/ \E p \in Workers, o \in RemoteOutcomes \cup ErrorOutcomes :
          RequestConnection_Policy(p, o)
    \/ \E p \in Workers : RequestConnection_CommitAudit(p)
    \/ \E p \in Workers : RequestConnection_CommitConnection(p)
    \/ \E p \in Workers : GetDb_Exit(p)

SpecErrors == InitErrors /\ [][NextErrors]_vars

\* --------------------------------------------------- list_connections
\* if device_id: / if user_id: / if status: the truth value of an
\* Optional[str], false for None and for the empty string
Given(f) == f # None /\ f[1] # ""

\* Lines 296-303: the where clauses of the query
Matches(conn, query) ==
    /\ Given(query.device_id) => conn.device_id = query.device_id[1]
    /\ Given(query.user_id) => conn.user_id = query.user_id[1]
    /\ Given(query.status) => conn.status = query.status[1]

\* order_by(desc(Connection.established_at)): the orders in which the
\* database may return the rows S; rows of one instant come in any order
Descending(S) ==
    {r \in [1..Cardinality(S) -> S] :
        /\ \A i, j \in DOMAIN r : i # j => r[i] # r[j]
        /\ \A i, j \in DOMAIN r :
              i < j => connections[r[i]].established_at >=
                       connections[r[j]].established_at}

\* Lines 311-320: the dict of one row; the instants stand for their
\* isoformat() and NULL for None
ConnectionEntry(conn) ==
    [connection_id |-> conn.connection_id,
     device_id |-> conn.device_id,
     user_id |-> conn.user_id,
     service_name |-> conn.service_name,
     status |-> conn.status,
     established_at |-> conn.established_at,
     terminated_at |-> conn.terminated_at]

\* Lines 296-324: one query, one response.
ListConnections(p, query) ==
    /\ pc[p] = "idle"
    /\ args' = [args EXCEPT ![p] = [NoArgs EXCEPT !.handler = "list_connections",
                                                  !.query = query]]
    /\ \E r \in Descending({i \in DOMAIN connections : Matches(connections[i], query)}) :
          response' = [response EXCEPT ![p] =
             [NoResponse EXCEPT
                 !.status = 200,
                 !.connections = [k \in DOMAIN r |-> ConnectionEntry(connections[r[k]])],
                 !.total = Len(r)]]
    /\ pc' = [pc EXCEPT ![p] = "exit"]
    /\ loc' = [loc EXCEPT ![p].in_transaction = TRUE]
    /\ UNCHANGED <<now, registry, tables, metrics, pending>>

\* the values of the query parameters: absent, empty, or a value that rows
\* can have
Optional(S) == {None, Some("")} \cup {Some(v) : v \in S}
Queries ==
    [device_id : Optional({"d1"}),
     user_id : Optional(UserIds),
     status : Optional({"established", "terminated"})]

\* the answers of the policy engine
Verdicts ==
    {[kind |-> "ok", body |-> [k \in {"result"} |-> v], err |-> ""] :
        v \in ResultValues}

\* The listing is one query and no await follows it: what it returns
\* depends on the tables alone, so one coroutine serves the requests that
\* fill the tables and the listings, one after another.
Readers == {1}

InitList == InitWorld(0, 60, UserIds, AllActive)

NextList ==
    \/ Tick
    \/ \E p \in Readers, u \in UserIds, s \in Services :
          RequestConnection_ValidateUpTo(p, "d1", u, s, MaxPairAttempts)
    \/ \E p \in Readers, o \in Verdicts : RequestConnection_Policy(p, o)
    \/ \E p \in Readers : RequestConnection_CommitAudit(p)
    \/ \E p \in Readers : RequestConnection_CommitConnection(p)
    \/ \E p \in Readers, cid \in 1..MaxPairAttempts : TerminateConnection_Read(p, cid)
    \/ \E p \in Readers : TerminateConnection_Commit(p)
    \/ \E p \in Readers, query \in Queries : ListConnections(p, query)
    \/ \E p \in Readers : GetDb_Exit(p)

SpecList == InitList /\ [][NextList]_vars

\* ------------------------------------------ administrative changes
\* The statuses an administrator gives to an enrolled device.  No handler
\* writes Device.status: the change is an UPDATE of the devices table made
\* outside the request handlers, at any moment.
DeviceStatuses == {"active", "suspended"}

AdminSetDeviceStatus(d, st) ==
    /\ devices[d] \notin {"absent", st}
    /\ devices' = [devices EXCEPT ![d] = st]
    /\ UNCHANGED <<now, registry, users, healthchecks, connections, audit_logs,
                   metrics, pc, args, loc, pending, response>>

InitAdmin == InitReported(0, 60)

NextAdmin ==
    \/ \E st \in DeviceStatuses : AdminSetDeviceStatus("d1", st)
    \/ \E p \in Workers, s \in Services :
          RequestConnection_ValidateUpTo(p, "d1", "u1", s, MaxPairAttempts)
    \/ \E p \in Workers, o \in Verdicts : RequestConnection_Policy(p, o)
    \/ \E p \in Workers : RequestConnection_CommitAudit(p)
    \/ \E p \in Workers : RequestConnection_CommitConnection(p)
    \/ \E p \in Workers : GetDb_Exit(p)

SpecAdmin == InitAdmin /\ [][NextAdmin]_vars

\* ------------------------------------------ reports with metrics
\* The compliance values that a device puts in the metrics of its report:
\* all three true, or one of them false.
ComplianceFields == {"os_patches_current", "antivirus_enabled", "disk_encrypted"}
Compliant == [k \in ComplianceFields |-> JTrue]
ReportedMetrics ==
    {Compliant} \cup {[Compliant EXCEPT ![k] = JFalse] : k \in ComplianceFields}

\* HealthCheck(device_id=..., status=..., metrics=request.metrics): the
\* metrics go to the JSON column as they come; the usage and compliance
\* columns are not set and stay NULL.
HealthCheckRecord(d, status, request_metrics, t, id) ==
    [id |-> id, device_id |-> d, status |-> status,
     cpu_usage |-> JNull, memory_usage |-> JNull,
     os_patches_current |-> JNull, antivirus_enabled |-> JNull,
     disk_encrypted |-> JNull,
     metrics |-> request_metrics, reported_at |-> t]

MaxReports == MaxHealthChecks + 1

\* a handler that keeps one row per device: a later report replaces the row
ReportHealth_Metrics_Upsert(d, request_metrics) ==
    /\ Len(healthchecks) < MaxReports
    /\ LET rows == {i \in DOMAIN healthchecks : healthchecks[i].device_id = d}
       IN IF rows = {}
          THEN healthchecks' = Append(healthchecks,
                   HealthCheckRecord(d, "healthy", request_metrics, now,
                                     Len(healthchecks) + 1))
          ELSE healthchecks' =
                  [i \in DOMAIN healthchecks |->
                      IF i \in rows
                      THEN HealthCheckRecord(d, "healthy", request_metrics, now, i)
                      ELSE healthchecks[i]]
    /\ health_checks_total' = health_checks_total + 1
    /\ UNCHANGED <<now, registry, devices, users, connections, audit_logs,
                   authorization_decisions_total, connections_total,
                   connections_active, pc, args, loc, pending, response>>

\* report_health for a request that carries metrics
ReportHealth_Metrics(d, request_metrics) ==
    /\ Len(healthchecks) < MaxReports
    /\ healthchecks' = Append(healthchecks,
           HealthCheckRecord(d, "healthy", request_metrics, now,
                             Len(healthchecks) + 1))
    /\ health_checks_total' = health_checks_total + 1
    /\ UNCHANGED <<now, registry, devices, users, connections, audit_logs,
                   authorization_decisions_total, connections_total,
                   connections_active, pc, args, loc, pending, response>>

NextReports ==
    \/ Tick
    \/ \E d \in {"d1", "d2"}, m \in ReportedMetrics : ReportHealth_Metrics(d, m)
    \/ \E p \in Workers, s \in Services :
          RequestConnection_Validate(p, "d1", "u1", s)
    \/ \E p \in Workers, o \in Verdicts : RequestConnection_Policy(p, o)
    \/ \E p \in Workers : RequestConnection_CommitAudit(p)
    \/ \E p \in Workers : RequestConnection_CommitConnection(p)
    \/ \E p \in Workers : GetDb_Exit(p)

SpecReports == Init /\ [][NextReports]_vars

\* ------------------------------------------ configured maximum age
\* the values of HEALTH_CHECK_MAX_AGE_MINUTES the process is started with
MaxAgeMinutes == {5, 10}
ConfiguredAges ==
    UNION {{m * 60 - 1, m * 60, m * 60 + 1} : m \in MaxAgeMinutes}

InitConfig ==
    \E a \in ConfiguredAges, m \in MaxAgeMinutes :
        InitConfigured(0, a, {"u1"}, AllActive,
                       [HEALTH_CHECK_MAX_AGE_MINUTES |-> m])

NextConfig ==
    \/ \E p \in Workers, d \in DeviceIds, u \in UserIds, s \in Services :
          RequestConnection_Validate(p, d, u, s)
    \/ \E p \in Workers, o \in Verdicts : RequestConnection_Policy(p, o)
    \/ \E p \in Workers : RequestConnection_CommitAudit(p)
    \/ \E p \in Workers : RequestConnection_CommitConnection(p)
    \/ \E p \in Workers : GetDb_Exit(p)

SpecConfig == InitConfig /\ [][NextConfig]_vars

\* ------------------------------------------ health checks with values
\* The rows that the tests of the policy input insert: each compliance
\* column is NULL, true or false, each usage column NULL or a number.
NullableBooleans == {JNull, JTrue, JFalse}
CpuUsages == {JNull, "45.5"}
MemoryUsages == {JNull, "62.3"}
HealthCheckRows(d, t) ==
    {[HealthRow(d, t) EXCEPT !.os_patches_current = o, !.antivirus_enabled = a,
                             !.disk_encrypted = e, !.cpu_usage = c,
                             !.memory_usage = m] :
        o \in NullableBooleans, a \in NullableBooleans, e \in NullableBooleans,
        c \in CpuUsages, m \in MemoryUsages}

InitInput ==
    \E hc \in HealthCheckRows("d1", 0), t \in {60, HealthMaxAge + 1} :
        InitSeeded(<<hc>>, t, {"u1"}, AllActive, DefaultSettings)

NextInput ==
    \/ \E p \in Workers, d \in DeviceIds, u \in UserIds, s \in Services :
          RequestConnection_Validate(p, d, u, s)
    \/ \E p \in Workers, o \in Verdicts : RequestConnection_Policy(p, o)
    \/ \E p \in Workers : RequestConnection_CommitAudit(p)
    \/ \E p \in Workers : RequestConnection_CommitConnection(p)
    \/ \E p \in Workers : GetDb_Exit(p)

SpecInput == InitInput /\ [][NextInput]_vars

\* ------------------------------------------------------ MTLSMiddleware
\* Paths that don't require mTLS authentication
EXEMPT_PATHS == {"/", "/healthz", "/docs", "/openapi.json", "/redoc", "/metrics",
                 "/api/v1/enroll"}

\* the paths of the requests that reach the middleware
RequestPaths ==
    EXEMPT_PATHS \cup {"/api/v1/health", "/api/v1/connections",
                       "/api/v1/connections/1"}

\* str.startswith
StartsWith(s, prefix) ==
    Len(prefix) <= Len(s) /\ SubSeq(s, 1, Len(prefix)) = prefix

\* any(request.url.path.startswith(path) for path in self.EXEMPT_PATHS)
IsExempt(path) == \E e \in EXEMPT_PATHS : StartsWith(path, e)

\* dispatch up to its await: an exempt path goes to call_next at line 67,
\* any other path goes on to the verification branch (lines 69-128), which
\* in this build verifies nothing and goes to call_next as well.
MTLSMiddleware_Dispatch(p, path) ==
    /\ pc[p] = "idle"
    /\ args' = [args EXCEPT ![p] = [NoArgs EXCEPT !.handler = "dispatch",
                                                  !.path = path]]
    /\ loc' = [loc EXCEPT ![p].mtls = IF IsExempt(path) THEN "exempt" ELSE "verify"]
    /\ pc' = [pc EXCEPT ![p] = "call_next"]
    /\ UNCHANGED <<now, registry, tables, metrics, pending, response>>

\* call_next(request) has returned the response of the route
MTLSMiddleware_CallNext(p) ==
    /\ pc[p] = "call_next"
    /\ response' = [response EXCEPT ![p] = [NoResponse EXCEPT !.status = 200]]
    /\ pc' = [pc EXCEPT ![p] = "sent"]
    /\ UNCHANGED <<now, registry, tables, metrics, args, loc, pending>>

\* the response is sent; the worker takes the next request
MTLSMiddleware_Return(p) ==
    /\ pc[p] = "sent"
    /\ pc' = [pc EXCEPT ![p] = "idle"]
    /\ args' = [args EXCEPT ![p] = NoArgs]
    /\ loc' = [loc EXCEPT ![p] = NoLoc]
    /\ response' = [response EXCEPT ![p] = NoResponse]
    /\ UNCHANGED <<now, registry, tables, metrics, pending>>

NextMTLS ==
    \/ \E p \in Workers, path \in RequestPaths : MTLSMiddleware_Dispatch(p, path)
    \/ \E p \in Workers : MTLSMiddleware_CallNext(p)
    \/ \E p \in Workers : MTLSMiddleware_Return(p)

SpecMTLS == Init /\ [][NextMTLS]_vars

\* ------------------------------------------------------ DeviceSimulator
\* the control plane, which the steps of the simulator process leave alone
server == <<now, user_status, certificate_serials, device_enrollments_total,
            devices_total, settings, tables, metrics, pc, args, loc, pending,
            response>>

\* --devices
NumDevices == 2
\* for _ in range(12)
SleepChunks == 12

\* while True:
LoopCondition_Always(sim) == TRUE

\* while self.running:
LoopCondition(sim) == sim.running

Min(a, b) == IF a < b THEN a ELSE b

\* run() up to the first post of enroll_all_devices: the handlers of SIGINT
\* and SIGTERM are installed, the device configurations made and the client
\* made by _get_client.
Run_Start ==
    /\ simulator.run = "start"
    /\ simulator' = [simulator EXCEPT !.run = "enrolling", !.client = "open",
                                      !.to_enroll = NumDevices]
    /\ UNCHANGED server

\* _signal_handler: self.running = False
SignalHandler ==
    /\ simulator.run \in {"enrolling", "loops", "closing"}
    /\ simulator.running
    /\ simulator' = [simulator EXCEPT !.running = FALSE]
    /\ UNCHANGED server

\* enroll_all_devices: the post of the next device has completed, with
\* status 200 (ok) or with another status or an exception.
EnrollAllDevices_Post(ok) ==
    /\ simulator.run = "enrolling"
    /\ simulator.to_enroll > 0
    /\ simulator' = [simulator EXCEPT
          !.to_enroll = @ - 1,
          !.enrolled = IF ok THEN @ + 1 ELSE @]
    /\ UNCHANGED server

\* asyncio.gather(health_reporting_loop(), connection_simulation_loop())
Run_Gather ==
    /\ simulator.run = "enrolling"
    /\ simulator.to_enroll = 0
    /\ simulator' = [simulator EXCEPT
          !.run = "loops", !.health.pc = "while", !.conn.pc = "while"]
    /\ UNCHANGED server

\* health_reporting_loop, line 155 to the await of the gather or, with no
\* enrolled device, to the first sleep chunk.
HealthReportingLoop_While ==
    /\ simulator.health.pc = "while"
    /\ simulator' =
          IF ~LoopCondition(simulator)
          THEN [simulator EXCEPT !.health.pc = "stopped", !.health.saw_stop = TRUE]
          ELSE IF simulator.enrolled > 0
          THEN [simulator EXCEPT !.health.pc = "gather",
                                 !.health.in_flight = simulator.enrolled]
          ELSE [simulator EXCEPT !.health.pc = "chunk", !.health.chunk = 0]
    /\ UNCHANGED server

\* report_health of one device has completed (a response, or an exception
\* that it logs); the gather returns with the last one.  Nothing inside the
\* try of the loop raises an Exception, so its except branch is not taken.
ReportHealth_Done ==
    /\ simulator.health.pc = "gather"
    /\ simulator' =
          IF simulator.health.in_flight > 1
          THEN [simulator EXCEPT !.health.in_flight = @ - 1]
          ELSE [simulator EXCEPT !.health.in_flight = 0,
                                 !.health.pc = "chunk", !.health.chunk = 0]
    /\ UNCHANGED server

\* Lines 163-166: the next of the twelve chunks: leave the for loop at its
\* end or when running is False, else sleep five seconds.
HealthReportingLoop_Chunk ==
    /\ simulator.health.pc = "chunk"
    /\ simulator' =
          IF simulator.health.chunk = SleepChunks
          THEN [simulator EXCEPT !.health.pc = "while"]
          ELSE IF ~simulator.running
          THEN [simulator EXCEPT !.health.pc = "while", !.health.saw_stop = TRUE]
          ELSE [simulator EXCEPT !.health.pc = "sleep"]
    /\ UNCHANGED server

\* asyncio.sleep(5) has returned
HealthReportingLoop_Wake ==
    /\ simulator.health.pc = "sleep"
    /\ simulator' = [simulator EXCEPT !.health.pc = "chunk", !.health.chunk = @ + 1]
    /\ UNCHANGED server

\* connection_simulation_loop, line 205 to the await of the gather or, with
\* no enrolled device, to the sleep.
ConnectionSimulationLoop_While ==
    /\ simulator.conn.pc = "while"
    /\ simulator' =
          IF ~LoopCondition(simulator)
          THEN [simulator EXCEPT !.conn.pc = "stopped", !.conn.saw_stop = TRUE]
          ELSE IF simulator.enrolled > 0
          THEN [simulator EXCEPT !.conn.pc = "gather",
                                 !.conn.in_flight = Min(3, simulator.enrolled)]
          ELSE [simulator EXCEPT !.conn.pc = "sleep"]
    /\ UNCHANGED server

\* request_connection of one device has completed
RequestConnection_Done ==
    /\ simulator.conn.pc = "gather"
    /\ simulator' =
          IF simulator.conn.in_flight > 1
          THEN [simulator EXCEPT !.conn.in_flight = @ - 1]
          ELSE [simulator EXCEPT !.conn.in_flight = 0, !.conn.pc = "sleep"]
    /\ UNCHANGED server

\* asyncio.sleep(5) has returned
ConnectionSimulationLoop_Wake ==
    /\ simulator.conn.pc = "sleep"
    /\ simulator' = [simulator EXCEPT !.conn.pc = "while"]
    /\ UNCHANGED server

\* both loops have returned: the gather of run() returns
Run_Gathered ==
    /\ simulator.run = "loops"
    /\ simulator.health.pc = "stopped"
    /\ simulator.conn.pc = "stopped"
    /\ simulator' = [simulator EXCEPT !.run = "closing"]
    /\ UNCHANGED server

\* finally: await self._close_client(); run() returns
Run_Finally ==
    /\ simulator.run = "closing"
    /\ simulator' = [simulator EXCEPT
          !.client = IF @ = "none" THEN "none" ELSE "closed",
          !.run = "returned"]
    /\ UNCHANGED server

NextSimulator ==
    \/ Run_Start
    \/ SignalHandler
    \/ \E ok \in BOOLEAN : EnrollAllDevices_Post(ok)
    \/ Run_Gather
    \/ HealthReportingLoop_While
    \/ ReportHealth_Done
    \/ HealthReportingLoop_Chunk
    \/ HealthReportingLoop_Wake
    \/ ConnectionSimulationLoop_While
    \/ RequestConnection_Done
    \/ ConnectionSimulationLoop_Wake
    \/ Run_Gathered
    \/ Run_Finally

\* The event loop resumes every coroutine that can go on: the sleeps end
\* and the posts complete within their timeouts.  No signal is owed.
FairSimulator ==
    /\ WF_vars(Run_Start)
    /\ WF_vars(\E ok \in BOOLEAN : EnrollAllDevices_Post(ok))
    /\ WF_vars(Run_Gather)
    /\ WF_vars(HealthReportingLoop_While)
    /\ WF_vars(ReportHealth_Done)
    /\ WF_vars(HealthReportingLoop_Chunk)
    /\ WF_vars(HealthReportingLoop_Wake)
    /\ WF_vars(ConnectionSimulationLoop_While)
    /\ WF_vars(RequestConnection_Done)
    /\ WF_vars(ConnectionSimulationLoop_Wake)
    /\ WF_vars(Run_Gathered)
    /\ WF_vars(Run_Finally)

SpecSimulator == Init /\ [][NextSimulator]_vars /\ FairSimulator

\* ====================================================== the claims
PolicyDenial == HTTPException(403, "Access denied by policy")

\* The remote call of the request that p serves has failed.
FailedPolicyCall(p) ==
    /\ args[p].handler = "request_connection"
    /\ loc[p].outcome.kind \in FailureKinds

\* C1: whenever the policy-engine call of a RequestConnection fails
\* (timeout, HTTP/transport error, malformed payload, unexpected exception),
\* every later step of that request leaves the connections table as it is
\* and the request ends with the 403 of a policy denial.
C1_FailClosed ==
    [][\A p \in Workers :
        /\ (FailedPolicyCall(p)' /\ pc'[p] # pc[p]) =>
              /\ connections' = connections
              /\ pc'[p] \in {"audit_commit", "exit"}
              /\ pc'[p] = "exit" => response'[p] = PolicyDenial
        /\ (FailedPolicyCall(p) /\ pc'[p] = "idle") =>
              connections' = connections]_vars

C1_Witness ==
    \E p \in Workers :
        /\ FailedPolicyCall(p)
        /\ loc[p].outcome.kind = "timeout"
        /\ pc[p] = "exit"
        /\ response[p] = PolicyDenial
        /\ connections = <<>>

\* C2: evaluate_policy does not raise: for each failure mode of the remote
\* call the value it hands to request_connection has allowed = false,
\* decision = "deny" and an error description.
C2_NeverRaises ==
    \A p \in Workers :
        FailedPolicyCall(p) =>
            LET r == loc[p].policy_result IN
            /\ ~Raises(r)
            /\ {"allowed", "decision", "error"} \subseteq DOMAIN r
            /\ r["allowed"] = JFalse
            /\ r["decision"] = "deny"
            /\ r["error"] # ""

C2_Witness ==
    \E p \in Workers :
        /\ FailedPolicyCall(p)
        /\ loc[p].outcome.kind = "malformed"
        /\ loc[p].policy_result["error"] = "Policy evaluation failed"

\* The audit rows that record decision dec for the request that p serves.
AuditRowsOf(al, p, dec) ==
    {i \in DOMAIN al :
        /\ al[i].event_type = "connection_request"
        /\ al[i].action = "request_connection"
        /\ al[i].device_id = args[p].device_id
        /\ al[i].user_id = args[p].user_id
        /\ al[i].service_name = args[p].service_name
        /\ al[i].decision = dec}

\* The policy engine has answered the request that p serves, and not with allow.
EngineDenies(p) ==
    /\ args[p].handler = "request_connection"
    /\ loc[p].outcome.kind = "ok"
    /\ Get(loc[p].outcome.body, "result", JFalse) = JFalse

\* C3: the connections table grows only by the one row of a
\* RequestConnection whose policy decision is allow; a request that the
\* policy engine denies ends with 403, has an AuditLog row with decision
\* "deny", and none of its steps changes the connections table.
C3_ConnectionOnlyOnAllow ==
    [][/\ Len(connections') # Len(connections) =>
            \E p \in Workers :
                /\ args[p].handler = "request_connection"
                /\ loc[p].decision = "allow"
                /\ pc[p] = "conn_commit" /\ pc'[p] = "exit"
                /\ Len(connections') = Len(connections) + 1
                /\ connections'[Len(connections')].connection_id = loc[p].connection_id
                /\ connections'[Len(connections')].device_id = args[p].device_id
       /\ \A p \in Workers :
            (EngineDenies(p) /\ pc'[p] # pc[p]) =>
                /\ connections' = connections
                /\ pc[p] = "audit_commit" =>
                      /\ pc'[p] = "exit"
                      /\ response'[p] = PolicyDenial
                      /\ AuditRowsOf(audit_logs', p, "deny") # {}
                /\ pc[p] = "exit" => pc'[p] = "idle"]_vars

C3_Witness ==
    \E p \in Workers :
        /\ EngineDenies(p)
        /\ pc[p] = "exit"
        /\ response[p] = PolicyDenial
        /\ AuditRowsOf(audit_logs, p, "deny") # {}
        /\ connections = <<>>

\* What the gates are about, read off the tables.
DeviceMissing(d) == devices[d] = "absent"
DeviceNotActive(d) == devices[d] \notin {"absent", "active"}
UserMissing(u) == u \notin users
ReportsOf(d) == {healthchecks[i].reported_at :
                    i \in {j \in DOMAIN healthchecks : healthchecks[j].device_id = d}}
NoHealthData(d) == ReportsOf(d) = {}
HealthTooOld(d) == \A t \in ReportsOf(d) : now - t > HealthMaxAge
FailsAGate(d, u) ==
    \/ DeviceMissing(d) \/ DeviceNotActive(d) \/ UserMissing(u)
    \/ NoHealthData(d) \/ HealthTooOld(d)

\* Worker p takes a RequestConnection in this step.
StartsRequest(p) == pc[p] = "idle" /\ args'[p].handler = "request_connection"

\* C4: the response of a RequestConnection is that of the first gate that
\* fails, in the order device existence, device status, user existence,
\* health presence, health freshness; when none fails the policy call starts.
C4_GateOrder ==
    [][\A p \in Workers :
        StartsRequest(p) =>
            LET d == args'[p].device_id
                u == args'[p].user_id
                r == response'[p]
            IN /\ DeviceMissing(d) => r = HTTPException(404, "Device not found")
               /\ DeviceNotActive(d) => r = HTTPException(403, "Device is not active")
               /\ (devices[d] = "active" /\ UserMissing(u)) =>
                     r = HTTPException(404, "User not found")
               /\ (devices[d] = "active" /\ ~UserMissing(u) /\ NoHealthData(d)) =>
                     r = HTTPException(503, "No health check data available for device")
               /\ (devices[d] = "active" /\ ~UserMissing(u) /\ ~NoHealthData(d)
                   /\ HealthTooOld(d)) =>
                     r = HTTPException(503, "Health check data is stale (older than 5 minutes)")
               /\ ~FailsAGate(d, u) => (r = NoResponse /\ pc'[p] = "opa")
               /\ FailsAGate(d, u) => pc'[p] = "exit"]_vars

\* A missing device with a missing user is answered device-not-found while
\* an inactive device with a missing user is answered 403.
C4_Witness ==
    \E p, q \in Workers :
        /\ pc[p] = "exit" /\ args[p].handler = "request_connection"
        /\ DeviceMissing(args[p].device_id) /\ UserMissing(args[p].user_id)
        /\ response[p] = HTTPException(404, "Device not found")
        /\ pc[q] = "exit" /\ args[q].handler = "request_connection"
        /\ DeviceNotActive(args[q].device_id) /\ UserMissing(args[q].user_id)
        /\ response[q] = HTTPException(403, "Device is not active")

\* The request that p serves was rejected by a gate.
GateRejected(p) ==
    /\ args[p].handler = "request_connection"
    /\ pc[p] = "exit"
    /\ ~loc[p].called_opa

\* C5: a RequestConnection that fails a gate makes no policy call and
\* neither it nor the release of its session changes the connections
\* table or the audit_logs table.
C5_GateFailureFrame ==
    [][\A p \in Workers :
        /\ (StartsRequest(p) /\ FailsAGate(args'[p].device_id, args'[p].user_id)) =>
              /\ pc'[p] = "exit"
              /\ ~loc'[p].called_opa
              /\ pending'[p] = <<>>
              /\ connections' = connections
              /\ audit_logs' = audit_logs
        /\ (GateRejected(p) /\ pc'[p] # pc[p]) =>
              /\ pc'[p] = "idle"
              /\ connections' = connections
              /\ audit_logs' = audit_logs]_vars

C5_Witness ==
    \E p \in Workers :
        /\ GateRejected(p)
        /\ response[p] = HTTPException(503, "Health check data is stale (older than 5 minutes)")
        /\ connections = <<>>
        /\ audit_logs = <<>>

\* The request that p serves has its policy result and is past the audit commit.
PastAuditCommit(p) ==
    /\ args[p].handler = "request_connection"
    /\ loc[p].called_opa
    /\ pc[p] \in {"conn_commit", "exit"}

\* The decision string that the outcome of the remote call stands for.
OutcomeDecision(o) ==
    IF o.kind = "ok" /\ Get(o.body, "result", JFalse) = JTrue THEN "allow" ELSE "deny"

\* C6: each attempt that reached policy evaluation has, once its audit
\* commit is done, exactly one AuditLog row: the table holds one row per
\* such attempt, and the row of an attempt carries event type
\* "connection_request", action "request_connection", the request's device,
\* user and service and the decision derived from the policy result.
C6_OneAuditRowPerAttempt ==
    /\ Len(audit_logs) + Cardinality({p \in Workers : pc[p] = "audit_commit"})
          = authorization_decisions_total["allow"] + authorization_decisions_total["deny"]
    /\ \A p \in Workers :
          PastAuditCommit(p) =>
              /\ loc[p].audit_id \in DOMAIN audit_logs
              /\ LET row == audit_logs[loc[p].audit_id] IN
                 /\ row.event_type = "connection_request"
                 /\ row.action = "request_connection"
                 /\ row.device_id = args[p].device_id
                 /\ row.user_id = args[p].user_id
                 /\ row.service_name = args[p].service_name
                 /\ row.decision = OutcomeDecision(loc[p].outcome)
    /\ \A i, j \in DOMAIN audit_logs : audit_logs[i].id = audit_logs[j].id => i = j

C6_Witness ==
    \E p \in Workers :
        /\ PastAuditCommit(p)
        /\ pc[p] = "exit"
        /\ response[p].status = 200
        /\ Len(audit_logs) = 1
        /\ AuditRowsOf(audit_logs, p, "allow") = {1}

\* The handler of the request that p serves has produced the 200 or the
\* 403 of the policy stage.
PolicyResponded(p) ==
    /\ args[p].handler = "request_connection"
    /\ pc[p] = "exit"
    /\ (response[p].status = 200 \/ response[p] = PolicyDenial)

\* The AuditLog row of the attempt that p serves is in the table.
AuditCommitted(p) ==
    loc[p].audit_id \in AuditRowsOf(audit_logs, p, loc[p].decision)

\* C7: when the handler produces its 200 or its policy 403 the AuditLog
\* row of the attempt is in the audit_logs table, and the release of the
\* session (a rollback after the 403) leaves the table as it is.
C7_AuditBeforeResponse ==
    [][\A p \in Workers :
        /\ (PolicyResponded(p) => AuditCommitted(p))'
        /\ (PolicyResponded(p) /\ pc'[p] = "idle") => audit_logs' = audit_logs]_vars

C7_Witness ==
    \E p \in Workers :
        /\ PolicyResponded(p)
        /\ response[p] = PolicyDenial
        /\ loc[p].audit_id \in DOMAIN audit_logs
        /\ audit_logs[loc[p].audit_id].decision = "deny"
        /\ pending[p] = <<>>

\* C8: an attempt whose policy call timed out or could not reach the
\* engine ends with an AuditLog row of decision "deny" whose extra data
\* hold the whole value the policy client returned, error text included.
C8_FailureAudited ==
    \A p \in Workers :
        (/\ args[p].handler = "request_connection"
         /\ loc[p].outcome.kind \in {"timeout", "http_error"}
         /\ pc[p] = "exit") =>
            /\ loc[p].audit_id \in DOMAIN audit_logs
            /\ LET row == audit_logs[loc[p].audit_id] IN
               /\ row.decision = "deny"
               /\ row.extra_data.opa_result = loc[p].policy_result
               /\ "error" \in DOMAIN row.extra_data.opa_result
               /\ row.extra_data.opa_result["error"] # ""

C8_Witness ==
    \E p \in Workers :
        /\ args[p].handler = "request_connection"
        /\ loc[p].outcome.kind = "http_error"
        /\ pc[p] = "exit"
        /\ audit_logs[loc[p].audit_id].extra_data.opa_result["error"]
              = "Policy service unavailable: connection refused"

\* The row of connection cid in table cs is terminated.
IsTerminatedIn(cs, cid) ==
    \E i \in DOMAIN cs : cs[i].connection_id = cid /\ cs[i].status = "terminated"

\* C9: the terminate that commits sets status = terminated and
\* terminated_at and answers 200; a terminate that starts on a connection
\* already terminated answers 400 and neither it nor the release of its
\* session changes the connections table.
C9_SecondTerminateRejected ==
    [][\A p \in Workers :
        /\ (pc[p] = "term_commit" /\ pc'[p] # pc[p]) =>
              /\ response'[p].status = 200
              /\ \E i \in DOMAIN connections' :
                    /\ connections'[i].connection_id = args[p].connection_id
                    /\ connections'[i].status = "terminated"
                    /\ connections'[i].terminated_at # NULL
        /\ (/\ pc[p] = "idle"
            /\ args'[p].handler = "terminate_connection"
            /\ IsTerminatedIn(connections, args'[p].connection_id)) =>
              /\ response'[p] = HTTPException(400, "Connection already terminated")
              /\ pc'[p] = "exit"
              /\ pending'[p] = <<>>
              /\ connections' = connections
        /\ (/\ args[p].handler = "terminate_connection"
            /\ response[p].status = 400
            /\ pc'[p] # pc[p]) =>
              /\ pc'[p] = "idle"
              /\ connections' = connections]_vars

\* The second call comes later than the first and finds its timestamp kept.
C9_Witness ==
    \E p \in Workers :
        /\ args[p].handler = "terminate_connection"
        /\ pc[p] = "exit"
        /\ response[p] = HTTPException(400, "Connection already terminated")
        /\ \E i \in DOMAIN connections :
              /\ connections[i].connection_id = args[p].connection_id
              /\ connections[i].status = "terminated"
              /\ connections[i].terminated_at = 0
        /\ now > 0

\* C10: in every state every row of the connections table has
\* terminated_at set if and only if its status is "terminated".
C10_TerminatedAtIffTerminated ==
    \A i \in DOMAIN connections :
        (connections[i].terminated_at # NULL) <=> (connections[i].status = "terminated")

C10_Witness ==
    \E i \in DOMAIN connections :
        /\ connections[i].status = "terminated"
        /\ connections[i].terminated_at # NULL

\* C11: a row enters the connections table in status "established", rows
\* are never removed, every row has one of the two statuses, and a step
\* changes the status of a row only from "established" to "terminated".
C11_TwoStateLifecycle ==
    [][/\ Len(connections') >= Len(connections)
       /\ \A i \in DOMAIN connections' :
            /\ connections'[i].status \in {"established", "terminated"}
            /\ IF i \in DOMAIN connections
               THEN /\ connections'[i].connection_id = connections[i].connection_id
                    /\ \/ connections'[i].status = connections[i].status
                       \/ /\ connections[i].status = "established"
                          /\ connections'[i].status = "terminated"
               ELSE connections'[i].status = "established"]_vars

\* A terminate that read the row as established is about to commit its
\* update on a row that another terminate has terminated meanwhile.
C11_Witness ==
    \E p \in Workers :
        /\ pc[p] = "term_commit"
        /\ IsTerminatedIn(connections, args[p].connection_id)

\* The decrements of the gauge of service s so far: the gauge is
\* incremented together with the "authorized" counter and by nothing else.
GaugeDecrements(s) == connections_total[<<s, "authorized">>] - connections_active[s]

TerminatedRows(s) ==
    {i \in DOMAIN connections :
        connections[i].service_name = s /\ connections[i].status = "terminated"}

\* C12: the gauge of a service has been decremented once for each of its
\* terminated connections and not more, whatever terminate requests ran.
C12_GaugeDecrementedOnce ==
    \A s \in Services : GaugeDecrements(s) = Cardinality(TerminatedRows(s))

StaleResponse == HTTPException(503, "Health check data is stale (older than 5 minutes)")

\* The age of the latest report of device d (d has a report).
LatestAge(d) == now - (CHOOSE t \in ReportsOf(d) : \A r \in ReportsOf(d) : r <= t)

LegacyAllow == [k \in {"allow"} |-> JTrue]
CurrentAllow == [k \in {"allowed", "decision"} |-> IF k = "allowed" THEN JTrue ELSE "allow"]

\* The handler of the request that p serves ends in this step.
EndsRequest(p) == pc[p] \in {"audit_commit", "conn_commit"} /\ pc'[p] = "exit"

\* The Connection row of the grant that p returns is in table cs.
GrantedIn(cs, p) ==
    \E i \in DOMAIN cs :
        /\ cs[i].connection_id = loc[p].connection_id
        /\ cs[i].status = "established"

\* C14: request_connection takes the allow signal from field allowed, from
\* field allow when allowed is absent, false when both are absent, and the
\* decision from field decision, derived from the allow signal when it is
\* absent; a request whose policy result is {allow: true} or {allowed: true,
\* decision: "allow"} ends with a 200 and its Connection row, one whose
\* policy result has none of the three fields ends with the policy 403.
C14_DecisionExtraction ==
    [][\A p \in Workers :
        /\ (pc[p] = "opa" /\ pc'[p] = "audit_commit") =>
              LET r == loc'[p].policy_result
                  signal == IF "allowed" \in DOMAIN r THEN r["allowed"]
                            ELSE IF "allow" \in DOMAIN r THEN r["allow"]
                            ELSE JFalse
              IN /\ loc'[p].allowed = signal
                 /\ loc'[p].decision =
                       IF "decision" \in DOMAIN r THEN r["decision"]
                       ELSE IF signal = JTrue THEN "allow" ELSE "deny"
        /\ (EndsRequest(p) /\ loc[p].policy_result \in {LegacyAllow, CurrentAllow}) =>
              /\ response'[p].status = 200
              /\ response'[p].detail = "authorized"
              /\ GrantedIn(connections', p)
        /\ (EndsRequest(p) /\ DOMAIN loc[p].policy_result \cap PolicyFields = {}) =>
              /\ response'[p] = PolicyDenial
              /\ connections' = connections]_vars

C14_Witness ==
    \E p \in Workers :
        /\ pc[p] = "exit"
        /\ loc[p].policy_result = LegacyAllow
        /\ response[p].status = 200
        /\ GrantedIn(connections, p)

\* The rows of table t (audit_logs or connections) for a device, user, service.
RowsFor(t, d, u, s) ==
    {i \in DOMAIN t : t[i].device_id = d /\ t[i].user_id = u /\ t[i].service_name = s}

\* The audit write or the connection insert of the request of p fails in this step.
WriteFails(p) ==
    /\ args[p].handler = "request_connection"
    /\ pc[p] \in {"audit_commit", "conn_commit"}
    /\ pc'[p] = "exit"
    /\ pending'[p] # <<>>

\* C15: with commits that can fail, the connections of a device, user and
\* service are never more than the AuditLog rows with decision "allow" for
\* them, and an attempt whose audit commit or connection commit fails
\* answers with a server error, never a 200, and adds no Connection row,
\* neither then nor when its session is released.
C15_NoGrantWithoutAudit ==
    [][/\ \A d \in DeviceIds, u \in UserIds, s \in Services :
            Cardinality(RowsFor(connections', d, u, s)) <=
                Cardinality({i \in RowsFor(audit_logs', d, u, s) :
                                audit_logs'[i].decision = "allow"})
       /\ \A p \in Workers :
            /\ WriteFails(p) =>
                  /\ response'[p].status >= 500
                  /\ connections' = connections
            /\ (/\ args[p].handler = "request_connection"
                /\ pc[p] = "exit" /\ pending[p] # <<>> /\ pc'[p] = "idle") =>
                  /\ connections' = connections
                  /\ audit_logs' = audit_logs]_vars

\* The connection insert of an allowed attempt has failed: its audit row
\* is stored, no Connection row is, and the caller gets a 500.
C15_Witness ==
    \E p \in Workers :
        /\ args[p].handler = "request_connection"
        /\ pc[p] = "exit"
        /\ response[p].status = 500
        /\ pending[p] # <<>>
        /\ pending[p][1].op = "add_connection"
        /\ AuditRowsOf(audit_logs, p, "allow") # {}
        /\ connections = <<>>

\* C16: a request whose policy call is in flight eventually has its
\* response, also when the engine never answers: the call waits at most
\* OPA_TIMEOUT, its expiry gives the decision "deny", and the request of an
\* expired call ends with the policy 403, not with a server error.
C16_BoundedPolicyCall ==
    /\ \A p \in Workers : (pc[p] = "opa") ~> (pc[p] = "exit" /\ response[p].status # 0)
    /\ [](\A p \in Workers :
            /\ loc[p].waited <= OPA_TIMEOUT
            /\ (loc[p].waited = OPA_TIMEOUT /\ pc[p] # "opa") =>
                  /\ loc[p].outcome.kind = "timeout"
                  /\ loc[p].decision = "deny"
                  /\ pc[p] \in {"audit_commit", "exit"}
                  /\ pc[p] = "exit" => response[p] = PolicyDenial)

C16_Witness ==
    \E p \in Workers :
        /\ pc[p] = "exit"
        /\ loc[p].waited = OPA_TIMEOUT
        /\ loc[p].outcome.kind = "timeout"
        /\ response[p] = PolicyDenial

\* The sum of the values of counter f over the labels in S.
RECURSIVE SumOver(_, _)
SumOver(f, S) ==
    IF S = {} THEN 0
    ELSE LET x == CHOOSE y \in S : TRUE IN f[x] + SumOver(f, S \ {x})

Decisions(c) == SumOver(c, DOMAIN c)
Requests(c) == SumOver(c, DOMAIN c)

C18_ComplianceFailClosed ==
    \A p \in Workers :
        (/\ args[p].handler = "check_device_compliance"
         /\ loc[p].outcome.kind \in FailureKinds) =>
            /\ ~Raises(loc[p].policy_result)
            /\ loc[p].policy_result = Return(JFalse)

\* The engine's 200 answer to the call of p carries result = true.
ResultIsTrue(p) ==
    /\ "result" \in DOMAIN loc[p].outcome.body
    /\ loc[p].outcome.body["result"] = JTrue

\* C19: after a 200 answer of the engine, evaluate_policy returns decision
\* "allow" only if the answer carries result = true (the boolean); an answer
\* without a result field, or with any other result, gives allowed = false
\* and decision = "deny".
C19_OnlyTrueAllows ==
    \A p \in Workers :
        (/\ args[p].handler = "evaluate_policy"
         /\ loc[p].outcome.kind = "ok") =>
            LET r == loc[p].policy_result IN
            /\ r["decision"] = "allow" => ResultIsTrue(p)
            /\ ~ResultIsTrue(p) => (r["allowed"] = JFalse /\ r["decision"] = "deny")

\* Another worker serves a request of the same device and user as p will.
PairInFlight(p) ==
    \E q \in Workers \ {p} :
        /\ args[q].handler = "request_connection"
        /\ args[q].device_id = args'[p].device_id
        /\ args[q].user_id = args'[p].user_id
        /\ pc[q] # "idle"

\* The pair that p asks for holds an established connection.
PairEstablished(p) ==
    \E i \in DOMAIN connections :
        /\ connections[i].device_id = args'[p].device_id
        /\ connections[i].user_id = args'[p].user_id
        /\ connections[i].status = "established"

\* C20: a request of a pair passes the gates whatever other requests of
\* the pair are in flight and whatever connections the pair holds; no step
\* of a request waits for another request; every allowed attempt ends with
\* a 200 and one new row of its own, established, with an id no other row
\* has, and leaves the rows that were there as they were.
C20_NotMutuallyExclusive ==
    /\ [](\A p \in Workers :
            /\ pc[p] = "opa" =>
                  \A o \in RemoteOutcomes : ENABLED RequestConnection_Policy(p, o)
            /\ pc[p] = "audit_commit" => ENABLED RequestConnection_CommitAudit(p)
            /\ pc[p] = "conn_commit" => ENABLED RequestConnection_CommitConnection(p)
            /\ pc[p] = "exit" => ENABLED GetDb_Exit(p))
    /\ [](\A i, j \in DOMAIN connections :
            connections[i].connection_id = connections[j].connection_id => i = j)
    /\ [][\A p \in Workers :
            /\ (StartsRequest(p) /\ (PairInFlight(p) \/ PairEstablished(p))) =>
                  pc'[p] = "opa"
            /\ (pc[p] = "conn_commit" /\ pc'[p] = "exit") =>
                  /\ response'[p].status = 200
                  /\ Len(connections') = Len(connections) + 1
                  /\ \A i \in DOMAIN connections : connections'[i] = connections[i]
                  /\ connections'[Len(connections')].connection_id = loc[p].connection_id
                  /\ connections'[Len(connections')].status = "established"
                  /\ connections'[Len(connections')].device_id = args[p].device_id
                  /\ connections'[Len(connections')].user_id = args[p].user_id]_vars

\* Two requests of the pair that overlapped have both been granted.
C20_Witness ==
    /\ \A p \in Workers :
          /\ pc[p] = "exit"
          /\ response[p].status = 200
          /\ args[p].device_id = "d1"
          /\ args[p].user_id = "u1"
    /\ Len(connections) = 2
    /\ connections[1].connection_id # connections[2].connection_id
    /\ \A i \in DOMAIN connections : connections[i].status = "established"

\* ------------------------------------------------------------------ C21
DeviceStore == <<devices, certificate_serials>>
EnrollmentMetrics == <<device_enrollments_total, devices_total>>
EnrollmentFailed(p) ==
    /\ args[p].handler = "enroll_device"
    /\ pc[p] = "exit"
    /\ response[p].status \in {401, 409}

\* C21: an enrollment that fails with 401 (invalid token) or 409 (device
\* already enrolled) leaves the Device store as it was, keeps nothing of its
\* own write in the session, and records no enrollment metric: neither the
\* step that fails nor the exit of the request that failed changes the
\* devices, their certificate serials or the enrollment counters.
C21_FailedEnrollmentNoTrace ==
    [][\A p \in Workers :
         /\ (pc[p] # "exit" /\ EnrollmentFailed(p)') =>
               /\ UNCHANGED <<DeviceStore, EnrollmentMetrics>>
               /\ pending'[p] = <<>>
         /\ (EnrollmentFailed(p) /\ pc'[p] = "idle") =>
               UNCHANGED <<DeviceStore, EnrollmentMetrics>>]_vars

\* a second enrollment of d3 was refused after the first one succeeded
C21_Witness ==
    \E p \in Workers :
       /\ EnrollmentFailed(p)
       /\ response[p].status = 409
       /\ args[p].device_id = "d3"
       /\ devices["d3"] = "active"
       /\ certificate_serials["d3"] = 3
       /\ device_enrollments_total = 1

\* ------------------------------------------------------------------ C22
Granted(p) == pc[p] = "conn_commit" /\ pc'[p] = "exit" /\ response'[p].status = 200
LastRow(cs) == cs[Len(cs)]

\* C22: an allowed attempt creates exactly one Connection row, with a
\* connection id that no other row has, status "established" and the
\* device, user and service of the request; its 200 response carries that
\* connection id with status "authorized", the service name and the
\* virtual-tunnel descriptor.  No other step of the pipeline adds a row.
C22_OneRowPerGrant ==
    /\ [](\A i, j \in DOMAIN connections :
             i # j => connections[i].connection_id # connections[j].connection_id)
    /\ [][\A p \in Workers :
            Granted(p) =>
              /\ connections' = Append(connections, LastRow(connections'))
              /\ LastRow(connections').connection_id \notin
                    {connections[i].connection_id : i \in DOMAIN connections}
              /\ LastRow(connections').status = "established"
              /\ LastRow(connections').device_id = args[p].device_id
              /\ LastRow(connections').user_id = args[p].user_id
              /\ LastRow(connections').service_name = args[p].service_name
              /\ response'[p].connection_id = LastRow(connections').connection_id
              /\ response'[p].detail = "authorized"
              /\ response'[p].service_name = args[p].service_name
              /\ response'[p].virtual_tunnel.type = "wireguard"
              /\ response'[p].virtual_tunnel.endpoint =
                    "wg://" \o args[p].service_name \o ".edgemesh.local"]_vars
    /\ [][connections' # connections => \E p \in Workers : Granted(p)]_vars

\* both users hold a connection of d1, each answered with its own id
C22_Witness ==
    /\ Len(connections) = 2
    /\ connections[1].user_id # connections[2].user_id
    /\ \E p \in Workers :
          /\ pc[p] = "exit"
          /\ response[p].status = 200
          /\ response[p].connection_id = connections[2].connection_id
          /\ args[p].user_id = connections[2].user_id

\* ------------------------------------------------------------------ C23
UserPart(u) == [user_id |-> u, email |-> UserEmail(u), role |-> UserRole(u)]
PassesOtherGates(d) ==
    /\ devices[d] = "active"
    /\ ~NoHealthData(d)
    /\ ~HealthTooOld(d)

DeniedAtPolicyStage(p) ==
    /\ args[p].handler = "request_connection"
    /\ pc[p] = "exit"
    /\ loc[p].called_opa
    /\ loc[p].decision = "deny"
ErrorOf(p) == Get(loc[p].policy_result, "error", "")

\* C24: the response of a policy-stage denial carries nothing of the policy
\* engine's error: it is 403 "Access denied by policy" with no other field
\* set, and two attempts of the same request that differ only in the error
\* text of the policy client's result get the same status code and body.
C24_DenialHidesEngineError ==
    /\ \A p \in Workers :
          DeniedAtPolicyStage(p) =>
             response[p] = [NoResponse EXCEPT !.status = 403,
                                              !.detail = "Access denied by policy"]
    /\ \A p, q \in Workers :
          (DeniedAtPolicyStage(p) /\ DeniedAtPolicyStage(q) /\ args[p] = args[q]) =>
             response[p] = response[q]

\* two denials of the same request whose policy results hold different
\* error texts
C24_Witness ==
    \E p, q \in Workers :
       /\ DeniedAtPolicyStage(p) /\ DeniedAtPolicyStage(q)
       /\ args[p] = args[q]
       /\ ErrorOf(p) = "Policy service unavailable: connection refused"
       /\ ErrorOf(q) = "Policy service unavailable: 500 Internal Server Error"
       /\ response[p] = response[q]

\* ------------------------------------------------------------------ C25
Lists(p) == pc[p] = "idle" /\ args'[p].handler = "list_connections"
Supplied(f) == f # None
SuppliedNonEmpty(f) == f # None /\ f # Some("")
\* the rows that satisfy every filter of q that counts as supplied
Selected(q, Counts(_)) ==
    {i \in DOMAIN connections :
        /\ Counts(q.device_id) => connections[i].device_id = q.device_id[1]
        /\ Counts(q.user_id) => connections[i].user_id = q.user_id[1]
        /\ Counts(q.status) => connections[i].status = q.status[1]}
\* the listing holds the rows S, each once and whole, newest first, and
\* their number
Returned(rows, total, S) ==
    /\ Len(rows) = Cardinality(S)
    /\ \A i \in S : \E k \in DOMAIN rows :
          /\ rows[k].connection_id = connections[i].connection_id
          /\ rows[k].device_id = connections[i].device_id
          /\ rows[k].user_id = connections[i].user_id
          /\ rows[k].service_name = connections[i].service_name
          /\ rows[k].status = connections[i].status
          /\ rows[k].established_at = connections[i].established_at
          /\ rows[k].terminated_at = connections[i].terminated_at
    /\ \A j, k \in DOMAIN rows :
          j < k => rows[j].established_at >= rows[k].established_at
    /\ total = Len(rows)
ListingOf(p, Counts(_)) ==
    Returned(response'[p].connections, response'[p].total,
             Selected(args'[p].query, Counts))
ReadOnly == UNCHANGED <<tables, metrics, registry, pending>>

\* C25 as stated: the listing returns exactly the rows that satisfy every
\* filter supplied (device id, user id, status), newest first, with total
\* the number of rows returned, and changes no state.
C25_ListExactlySupplied ==
    [][\A p \in Workers : Lists(p) => (ListingOf(p, Supplied) /\ ReadOnly)]_vars

\* C25, what the listing does: it returns exactly the rows that satisfy
\* every filter supplied with a non-empty value (a filter given as the empty
\* string is ignored like an absent one); the filters are independent and
\* conjunctive, the rows come by established-at descending, total is the
\* number of rows returned, and neither the query nor the exit of the
\* request changes any table, metric or session.
C25_ListExactlyNonEmpty ==
    [][\A p \in Workers :
         /\ Lists(p) => (ListingOf(p, SuppliedNonEmpty) /\ ReadOnly)
         /\ (args[p].handler = "list_connections" /\ pc[p] = "exit"
               /\ pc'[p] = "idle") => ReadOnly]_vars

\* two connections established at different instants, one of them
\* terminated since; a listing by status and user returned one of them
C25_Witness ==
    \E p \in Workers :
       /\ args[p].handler = "list_connections"
       /\ pc[p] = "exit"
       /\ args[p].query.status = Some("established")
       /\ args[p].query.user_id # None
       /\ Len(connections) = 2
       /\ connections[1].established_at < connections[2].established_at
       /\ response[p].total = 1
       /\ \E i \in DOMAIN connections : connections[i].status = "terminated"

\* ------------------------------------------------------------------ C26
\* the allow signal of a policy result: allowed, allow when allowed is
\* absent, false when both are absent
AllowSignal(r) ==
    IF "allowed" \in DOMAIN r THEN r["allowed"]
    ELSE IF "allow" \in DOMAIN r THEN r["allow"]
    ELSE JFalse

ConnectionInsertFails(p) ==
    /\ pc[p] = "conn_commit"
    /\ pc'[p] = "exit"
    /\ ~GrantedIn(connections', p)
AuditRowKept(al, p) == \E i \in DOMAIN al : al[i].id = loc[p].audit_id

\* C27: the writes of one attempt are one transaction: the AuditLog row and
\* the Connection row are committed together or not at all, and when the
\* connection insert fails the caller gets a Conflict (409) and no write of
\* the attempt stays in the tables.
C27_AuditAndConnectionTogether ==
    [][\A p \in Workers :
         ConnectionInsertFails(p) =>
            /\ response'[p].status = 409
            /\ ~AuditRowKept(audit_logs', p)]_vars

\* ------------------------------------------------------------------ C28
PolicyCallInFlight(p) == args[p].handler = "request_connection" /\ pc[p] = "opa"

\* C28: while the remote policy call of a request is in flight the request
\* holds no entity-store transaction open: the reads of the gates are closed
\* before the call starts, and the audit and connection writes begin only
\* after it has returned.
C28_NoTransactionAcrossPolicyCall ==
    \A p \in Workers :
       PolicyCallInFlight(p) =>
          /\ ~loc[p].in_transaction
          /\ pending[p] = <<>>

\* ------------------------------------------------------------------ C29
EndsAttempt(p) ==
    /\ args[p].handler = "request_connection"
    /\ loc[p].called_opa
    /\ pc[p] \in {"audit_commit", "conn_commit"}
    /\ pc'[p] = "exit"
AuditedAs(p, dec) ==
    \E i \in DOMAIN audit_logs :
        audit_logs[i].id = loc[p].audit_id /\ audit_logs[i].decision = dec
RequestCounted(p, label) ==
    connections_total' =
        [connections_total EXCEPT ![<<args[p].service_name, label>>] = @ + 1]
AllowRecords(p) ==
    /\ AuditedAs(p, "allow")'
    /\ Truthy(loc[p].allowed)
    /\ RequestCounted(p, "authorized")
    /\ GrantedIn(connections', p)
    /\ response'[p].status = 200
DenyRecords(p) ==
    /\ AuditedAs(p, "deny")'
    /\ ~Truthy(loc[p].allowed)
    /\ RequestCounted(p, "denied")
    /\ connections' = connections
    /\ response'[p].status = 403

\* C29: the records of every attempt that reached policy evaluation agree
\* when it ends: either the audit row says "allow", the decision metric
\* counted an allow, the connection-request metric an authorized request,
\* the Connection row exists and the response is 200; or the audit row says
\* "deny", both metrics counted a denial, no Connection row was created and
\* the response is 403.  No audit row holds another decision.
C29_RecordsAgree ==
    /\ [](\A i \in DOMAIN audit_logs : audit_logs[i].decision \in {"allow", "deny"})
    /\ [][\A p \in Workers :
            EndsAttempt(p) => (AllowRecords(p) \/ DenyRecords(p))]_vars

\* ------------------------------------------------------------------ C30
Quiescent == \A p \in Workers : pc[p] = "idle"
EstablishedRows(s) ==
    {i \in DOMAIN connections :
        connections[i].service_name = s /\ connections[i].status = "established"}

\* C30: in every state with no request in flight the active-connections
\* gauge of each service equals the number of its Connection rows in status
\* "established", and the gauge is negative in no reachable state.
C30_GaugeMatchesEstablished ==
    /\ \A s \in Services : connections_active[s] >= 0
    /\ Quiescent =>
          \A s \in Services : connections_active[s] = Cardinality(EstablishedRows(s))

\* ------------------------------------------------------------------ C31
\* C31: no Connection row is committed for a device whose status is not
\* "active" at the moment of the commit, also when an administrative change
\* of the status comes between the device-status gate of a request and its
\* connection insert.
C31_NoConnectionForInactiveDevice ==
    [][\A p \in Workers :
         (pc[p] = "conn_commit" /\ GrantedIn(connections', p)) =>
            devices[args[p].device_id] = "active"]_vars

\* ------------------------------------------------------------------ C32
\* The latest reports of device d: its rows with the greatest reported_at.
LatestReports(d) ==
    LET rows == {i \in DOMAIN healthchecks : healthchecks[i].device_id = d}
    IN {i \in rows :
          \A j \in rows : healthchecks[j].reported_at <= healthchecks[i].reported_at}
EntersPolicyStage(p) == StartsRequest(p) /\ pc'[p] = "opa"

\* C32: the compliance values of a device's latest health report reach the
\* policy input of its next request: each of os_patches_current,
\* antivirus_enabled and disk_encrypted is true in the input when the report
\* states it true and false when the report states it false.
C32_ReportedComplianceReachesPolicy ==
    [][\A p \in Workers :
         EntersPolicyStage(p) =>
            \A k \in ComplianceFields :
               loc'[p].opa_input.device[k] \in
                  {healthchecks[i].metrics[k] :
                      i \in LatestReports(args'[p].device_id)}]_vars

\* ------------------------------------------------------------------ C33
\* the configured maximum age, in seconds
ConfiguredMaxAge == settings.HEALTH_CHECK_MAX_AGE_MINUTES * 60

\* C33: the maximum age of the freshness gate is the configured
\* HEALTH_CHECK_MAX_AGE_MINUTES: for every configured maximum M, a request
\* that reaches the freshness gate passes it if and only if the age of the
\* latest health check is at most M.
C33_ConfiguredMaxAge ==
    [][\A p \in Workers :
        (/\ StartsRequest(p)
         /\ devices[args'[p].device_id] = "active"
         /\ ~UserMissing(args'[p].user_id)
         /\ ~NoHealthData(args'[p].device_id)) =>
            (pc'[p] = "opa" <=> LatestAge(args'[p].device_id) <= ConfiguredMaxAge)]_vars

\* ------------------------------------------------------------------ C34
NoDataResponse == HTTPException(503, "No health check data available for device")

\* The health part of the policy input that row hc gives.
HealthPart(hc) ==
    [os_patches_current |-> OrFalse(hc.os_patches_current),
     antivirus_enabled |-> OrFalse(hc.antivirus_enabled),
     disk_encrypted |-> OrFalse(hc.disk_encrypted),
     cpu_usage |-> OrZero(hc.cpu_usage),
     memory_usage |-> OrZero(hc.memory_usage)]

\* C34: whatever reports were made, a request that reaches the health
\* gates is decided by the most recently reported row of its device alone:
\* it gets the 503 of missing data exactly when the device has no row, the
\* 503 of stale data exactly when the most recent row is too old, and
\* otherwise the policy input carries the values of that row; older rows
\* of the device and rows of other devices change nothing.
C34_OnlyLatestHealthCheck ==
    [][\A p \in Workers :
        (/\ StartsRequest(p)
         /\ devices[args'[p].device_id] = "active"
         /\ ~UserMissing(args'[p].user_id)) =>
            LET d == args'[p].device_id
                latest == LatestReports(d)
            IN /\ response'[p] = NoDataResponse <=> latest = {}
               /\ \A i \in latest :
                     /\ response'[p] = StaleResponse <=>
                           now - healthchecks[i].reported_at > HealthMaxAge
                     /\ pc'[p] = "opa" <=>
                           now - healthchecks[i].reported_at <= HealthMaxAge
                     /\ pc'[p] = "opa" =>
                           \A k \in DOMAIN HealthPart(healthchecks[i]) :
                              loc'[p].opa_input.device[k] =
                                 HealthPart(healthchecks[i])[k]]_vars

\* A request has passed the gates on the fresh second report of d1, with an
\* older, stale report of d1 in the table.
C34_Witness ==
    \E p \in Workers :
        /\ pc[p] = "opa"
        /\ args[p].device_id = "d1"
        /\ \E i, j \in DOMAIN healthchecks :
              /\ healthchecks[i].device_id = "d1"
              /\ healthchecks[j].device_id = "d1"
              /\ now - healthchecks[i].reported_at > HealthMaxAge
              /\ now - healthchecks[j].reported_at <= HealthMaxAge

\* ------------------------------------------------------------------ C35
NullToFalse(v) == IF v = JNull THEN JFalse ELSE v
NullToZero(v) == IF v = JNull THEN "0.0" ELSE v

RowsOfDevice(hcs, d) == SelectSeq(hcs, LAMBDA hc : hc.device_id = d)

\* C36: an accepted health report appends exactly one HealthCheck row, for
\* the reported device, and no step of the system changes or removes a row
\* that exists: the rows of a device only grow, one per report, so that the
\* table has as many rows as reports were accepted.
C36_OneRowPerReport ==
    [][/\ SubSeq(healthchecks', 1, Len(healthchecks)) = healthchecks
       /\ Len(healthchecks') - Len(healthchecks) =
             health_checks_total' - health_checks_total
       /\ Len(healthchecks') = health_checks_total'
       /\ health_checks_total' # health_checks_total =>
             \E d \in DeviceIds :
                /\ Len(RowsOfDevice(healthchecks', d)) =
                      Len(RowsOfDevice(healthchecks, d)) + 1
                /\ \A e \in DeviceIds \ {d} :
                      RowsOfDevice(healthchecks', e) = RowsOfDevice(healthchecks, e)]_vars

\* Two reports of d1 have left two rows of d1, with a request served since.
C36_Witness ==
    /\ health_checks_total = 2
    /\ Len(RowsOfDevice(healthchecks, "d1")) = 2
    /\ Len(audit_logs) > 0

\* ------------------------------------------------------------------ C37
Dispatches(p) == pc[p] = "idle" /\ args'[p].handler = "dispatch"

\* C37: the middleware treats a request as exempt exactly when its path is
\* one of the listed exempt paths; a request to /api/v1/health or to a
\* /api/v1/connections path is not exempt and takes the branch that
\* verifies the client certificate.
C37_ExemptOnlyListedPaths ==
    [][\A p \in Workers :
         Dispatches(p) =>
            /\ loc'[p].mtls = "exempt" <=> args'[p].path \in EXEMPT_PATHS
            /\ args'[p].path \in {"/api/v1/health", "/api/v1/connections",
                                  "/api/v1/connections/1"} =>
                   loc'[p].mtls = "verify"]_vars

\* ------------------------------------------------------------------ C38
\* A loop starts a round of requests in this step.
StartsRound(loop) == simulator[loop].pc # "gather" /\ simulator'[loop].pc = "gather"
SimulatorStopped ==
    /\ simulator.run = "returned"
    /\ simulator.health.pc = "stopped"
    /\ simulator.conn.pc = "stopped"
    /\ simulator.client = "closed"

\* C38: once a shutdown signal has set running to false, both loops exit
\* and run() returns with the HTTP client closed; a loop that has read
\* running as false starts no further round of health reports or of
\* connection requests.
C38_GracefulShutdown ==
    /\ (~simulator.running) ~> SimulatorStopped
    /\ [][\A loop \in {"health", "conn"} :
             simulator[loop].saw_stop => ~StartsRound(loop)]_vars
    /\ [](simulator.run = "returned" =>
             /\ simulator.health.in_flight = 0
             /\ simulator.conn.in_flight = 0)

\* The signal came while the health loop slept after a round of reports:
\* the loops have stopped and run() has returned.
C38_Witness ==
    /\ SimulatorStopped
    /\ ~simulator.running
    /\ simulator.enrolled > 0
    /\ simulator.health.chunk > 0
    /\ simulator.health.chunk < SleepChunks

====
